---- MODULE Spec2Model ----
(***************************************************************************)
(* A model of the engine core of Disservin/Stockfish: the transposition    *)
(* table and its memory (src/src/tt.cpp, src/src/memory.cpp), the history  *)
(* update rule and bonuses (src/src/history.h, src/src/history.cpp), the   *)
(* NNUE network loader and writer (src/src/nnue/network.cpp,               *)
(* src/src/nnue/nnue_feature_transformer.h), the feature transformer's     *)
(* output, the NNUE accumulator stacks (src/src/nnue/nnue_accumulator.cpp),*)
(* the state list of the engine (src/src/engine.cpp), FEN parsing, FEN     *)
(* output, draw detection and the cuckoo tables (src/src/position.cpp) and *)
(* the UCI options (src/src/ucioption.cpp).                                *)
(*                                                                         *)
(* Each subsystem has its own specification (SpecTT, SpecTTWrite,          *)
(* SpecTTClear, SpecTTConc, SpecMiss, SpecRound, SpecRefresh,              *)
(* SpecClearPart, SpecHashfull, SpecAge, SpecMem, SpecHist, SpecBonus,     *)
(* SpecCont, SpecNet, SpecParse, SpecAcc, SpecSave, SpecTransform,         *)
(* SpecStates, SpecEngine, SpecFen, SpecOpt, SpecReg, SpecDraw,            *)
(* SpecCuckoo); the variables of the other subsystems stay at their        *)
(* initial values.                                                         *)
(***************************************************************************)
EXTENDS Integers, Sequences, FiniteSets, TLC

VARIABLES
    \* ---- transposition table (tt.cpp) ----
    table,        \* Cluster array: table[c][i] = [key |-> u16, data |-> TTData8]
    generation8,  \* TranspositionTable::generation8
    ttWriter,     \* the TTWriter returned by the last probe: <<cluster, idx>> or <<>>
    ttProbe,      \* the tuple returned by the last probe
    ttLast,       \* observation of the last write: arguments, entry before, stores done
    ttSearches,   \* number of new_search calls since the last clear (bounds the model)
    ttThreads,    \* concurrent specification: per thread program counter and locals
    ttStored,     \* concurrent specification: every payload handed to data_atomic->store
    \* ---- history (history.h) ----
    hD,           \* the template parameter D of the StatsEntry under observation
    hEntry,       \* StatsEntry::entry
    hLast,        \* the last bonus passed to operator<<
    \* ---- network loader (network.cpp) ----
    evalFile,     \* EvalFile: [defaultName, current, netDescription]
    netParams,    \* the parameters held in memory (featureTransformer, network[i])
    netFiles,     \* what each source currently holds: directory -> name -> stream or Missing
    netLog,       \* the sources opened by the last Network::load, in order, with outcome
    netGood,      \* the parameters parsed by the last successful load, per file name
    \* ---- stream parser (network.cpp) ----
    pStream,      \* the stream handed to Network::load(std::istream&)
    pResult,      \* its result
    \* ---- accumulator stacks (nnue_accumulator.cpp) ----
    posAt,        \* the position at every ply of the search path (Position after each make)
    psqt,         \* UpdateHalfka: [size, acc]
    threat,       \* UpdateThreats: [size, acc]
    cache,        \* AccumulatorCaches::Cache: cache[ksq][perspective]
    accLast,      \* observation of the last operation on the stacks
    \* ---- network save and load (network.cpp, nnue_feature_transformer.h) ----
    svBuild,      \* the vector extension the binary is compiled for
    svNet,        \* the parameters in memory: feature transformer and layer stacks
    svFile,       \* the stream written by the last Network::save
    svLast,       \* observation of the last save or load
    \* ---- state deque (engine.cpp) ----
    states,       \* Engine::states: the deque of StateInfo
    stPos,        \* Engine::pos: st (index of the record pointed to) and the FEN it was set from
    stLast,       \* observation of the last set_position
    \* ---- FEN (position.cpp) ----
    fenPos,       \* a Position with the StateInfo it points to
    fenLast,      \* observation of the last set or fen
    \* ---- UCI options (ucioption.cpp) ----
    options_map,  \* OptionsMap::options_map: name -> Option
    optLast,      \* observation of the last setoption
    \* ---- draw detection (position.cpp) ----
    drawSt,       \* the StateInfo fields is_draw reads, and the number of legal moves
    drawLast,     \* observation of the last is_draw
    \* ---- entry age (tt.cpp) ----
    ageGen,       \* TranspositionTable::generation8 over many searches
    ageEntry,     \* a stored TTData8
    ageLast,      \* observation of the last relative_age
    \* ---- history bonus (history.cpp) ----
    sbLast,       \* the last call of stat_bonus or stat_malus with its result
    \* ---- continuation histories (history.cpp) ----
    chStack,      \* Search::Stack: the currentMove of every ply searched, the last one at ss - 1
    chTables,     \* the PieceToHistory entry [pc][to] of every continuation history table
    chUpdates,    \* number of updates made (bounds the model)
    chLast,       \* observation of the last update_continuation_histories
    \* ---- cuckoo tables (position.cpp) ----
    ckSeed,       \* the seed the Zobrist keys were drawn with
    cuckoo,       \* Key cuckoo[8192], empty before Position::init
    cuckooMove,   \* Move cuckooMove[8192]
    ckCount,      \* count of Position::init
    ckLoop,       \* position of the loop of Position::init over the pieces
    \* ---- feature transformer output (nnue_feature_transformer.h) ----
    trAcc,        \* accumulation[perspective][0 .. HalfDimensions - 1] of the current position
    trLast,       \* observation of the last transform: build, side to move, output
    \* ---- memory of the transposition table (memory.cpp, tt.cpp) ----
    memBuild,     \* the platform and assertion setting the program was built for
    memProc,      \* the process: running, or how it ended
    memTable,     \* TranspositionTable::table, 0 for nullptr
    memHeap,      \* the live blocks: block -> size in MB
    memNext,      \* the next block to hand out
    memLast,      \* observation of the last operation
    \* ---- parallel clear (tt.cpp) ----
    cpClear,      \* TranspositionTable::clear on the calling thread: its loop, clusterCount and threadCount
    cpJobs,       \* the job run_on_thread handed to each worker and how far it is
    cpTable,      \* per cluster, whether it still holds data or is zero
    cpZeroed,     \* per cluster, the workers that zeroed it, in order
    \* ---- Engine and the searching workers (engine.cpp) ----
    engPc,        \* the thread that calls the Engine: idle, or where it is in search_clear or set_tt_size
    engWorkers,   \* per worker, idle or where it is in its search; worker 0 is the main thread
    engStop,      \* ThreadPool::stop
    engTT,        \* the table's storage: ready, being zeroed, or freed and not yet allocated again
    engLast,      \* the last probe or write of a worker, with the state of the storage it met
    \* ---- registration and printing of options (ucioption.cpp) ----
    insert_order, \* static size_t Option::insert_order
    regMaps,      \* per OptionsMap instance, options_map: name -> idx of the Option
    regOrder,     \* per instance, the names in the order they were first registered
    regLast       \* observation of the last operation: the names a print listed

ttVars   == <<table, generation8, ttWriter, ttProbe, ttLast, ttSearches, ttThreads, ttStored>>
histVars == <<hD, hEntry, hLast>>
netVars  == <<evalFile, netParams, netFiles, netLog, netGood>>
parseVars == <<pStream, pResult>>
accVars  == <<posAt, psqt, threat, cache, accLast>>
saveVars == <<svBuild, svNet, svFile, svLast>>
stateVars == <<states, stPos, stLast>>
fenVars == <<fenPos, fenLast>>
optVars == <<options_map, optLast>>
drawVars == <<drawSt, drawLast>>
ageVars == <<ageGen, ageEntry, ageLast>>
bonusVars == <<sbLast>>
contVars == <<chStack, chTables, chUpdates, chLast>>
cuckooVars == <<ckSeed, cuckoo, cuckooMove, ckCount, ckLoop>>
trVars == <<trAcc, trLast>>
memVars == <<memBuild, memProc, memTable, memHeap, memNext, memLast>>
clearVars == <<cpClear, cpJobs, cpTable, cpZeroed>>
engVars == <<engPc, engWorkers, engStop, engTT, engLast>>
regVars == <<insert_order, regMaps, regOrder, regLast>>
extVars  == <<saveVars, stateVars, fenVars, optVars, drawVars, ageVars, bonusVars, contVars, cuckooVars, trVars, memVars, clearVars, engVars, regVars>>
vars == <<ttVars, histVars, netVars, parseVars, accVars, extVars>>

(***************************************************************************)
(* Fixed-width integer conversions and bit operations.                     *)
(***************************************************************************)
Pow2(n) == 2 ^ n

\* uint8_t(x), uint16_t(x): reduction modulo 2^w
ToU8(x)  == x % 256
ToU16(x) == x % 65536
\* int16_t(x): two's complement wrap
ToI16(x) == ((x + 32768) % 65536) - 32768
\* int32_t kept as an integer of the model: no model value comes near 2^31
B2I(b) == IF b THEN 1 ELSE 0

RECURSIVE BitAnd(_, _)
BitAnd(a, b) ==
    IF a = 0 \/ b = 0 THEN 0
    ELSE (a % 2) * (b % 2) + 2 * BitAnd(a \div 2, b \div 2)

RECURSIVE BitOr(_, _)
BitOr(a, b) ==
    IF a = 0 THEN b
    ELSE IF b = 0 THEN a
    ELSE (IF (a % 2) + (b % 2) > 0 THEN 1 ELSE 0) + 2 * BitOr(a \div 2, b \div 2)

Abs(x) == IF x < 0 THEN -x ELSE x
\* C++ integer division truncates toward zero
TruncDiv(a, b) == IF a >= 0 THEN a \div b ELSE -((-a) \div b)
Min(a, b) == IF a < b THEN a ELSE b

\* Body applied to the value of e, which is computed once
With(e, Body(_)) == CHOOSE y \in {Body(x) : x \in {e}} : TRUE

(***************************************************************************)
(* Transposition table: src/src/tt.cpp                                     *)
(***************************************************************************)
\* types.h is not part of the sources at hand: these come from the specification
DEPTH_ENTRY_OFFSET == -7
BOUND_NONE  == 0
BOUND_UPPER == 1
BOUND_LOWER == 2
BOUND_EXACT == 3
MOVE_NONE   == 0
VALUE_NONE  == 32002

GENERATION_BITS  == 3
GENERATION_DELTA == Pow2(GENERATION_BITS)
GENERATION_CYCLE == 255 + GENERATION_DELTA
GENERATION_MASK  == (255 * Pow2(GENERATION_BITS)) % 256
ClusterSize == 3

\* Bounds of the model: width of a Key (64 in the program), number of clusters,
\* new_search calls explored after a clear
KeyBits      == 18
ClusterCount == 1
MaxSearches  == 1

EntryIdx == 0 .. (ClusterSize - 1)
Clusters == 0 .. (ClusterCount - 1)

\* Keys probed: shards 0, 1 and 2, and a second key of shard 1
Keys == {0, 1, 2, Pow2(16) + 1}

\* Arguments of TTWriter::write explored
WriteKeys   == {0, 1, 2}
WriteValues == {9}
WriteEvals  == {4}
WriteBounds == {BOUND_UPPER, BOUND_EXACT}
WriteDepths == {-6, -2}
WriteMoves  == {MOVE_NONE, 300}

\* struct TTData8
ZeroData8 == [depth8 |-> 0, genBound8 |-> 0, move16 |-> 0, value16 |-> 0, eval16 |-> 0]

\* std::memcpy(&packed, &data, 8): the eight bytes of TTData8, little endian
Pack(d) ==
    << d.depth8, d.genBound8,
       d.move16 % 256, d.move16 \div 256,
       ToU16(d.value16) % 256, ToU16(d.value16) \div 256,
       ToU16(d.eval16) % 256, ToU16(d.eval16) \div 256 >>

\* std::memcpy(&data, &packed, 8)
Unpack(p) ==
    [depth8 |-> p[1], genBound8 |-> p[2],
     move16 |-> p[3] + 256 * p[4],
     value16 |-> ToI16(p[5] + 256 * p[6]),
     eval16 |-> ToI16(p[7] + 256 * p[8])]

ZeroPacked == <<0, 0, 0, 0, 0, 0, 0, 0>>

\* Seeded fault: every entry counts as occupied
AlwaysOccupied(d) == TRUE

\* TTData8::is_occupied
is_occupied(d) == d.depth8 # 0

\* relative_age with the cycle length 256, which lets the low bits borrow
relative_age_cycle_256(d, gen8) ==
    BitAnd(256 + gen8 - d.genBound8, GENERATION_MASK)

\* TTData8::relative_age
relative_age(d, gen8) ==
    BitAnd(GENERATION_CYCLE + gen8 - d.genBound8, GENERATION_MASK)

\* TTData8::read / TTEntry::read: convert internal bitfields to external types
ReadData(d) ==
    [move |-> d.move16, value |-> d.value16, eval |-> d.eval16,
     depth |-> d.depth8 + DEPTH_ENTRY_OFFSET,
     bound |-> BitAnd(d.genBound8, 3),
     is_pv |-> BitAnd(d.genBound8, 4) # 0]

\* mul_hi64(key, clusterCount) on keys of KeyBits bits
MulHi(key, n) == (key * n) \div Pow2(KeyBits)
ClusterOf(key) == MulHi(key, ClusterCount)

\* Seeded fault: a move of none also overwrites the stored move
WriteUpdatesMoveAlways(current_key, k, m) == TRUE

\* TTWriter::write: "Preserve the old ttmove if we don't have a new one"
WriteUpdatesMove(current_key, k, m) ==
    (m # MOVE_NONE) \/ (ToU16(k) # current_key)

\* Seeded fault: the replacement condition without its BOUND_EXACT disjunct
WriteReplacesNoExact(current_key, current_data, k, pv, b, d, gen8) ==
    \/ ToU16(k) # current_key
    \/ d - DEPTH_ENTRY_OFFSET + 2 * B2I(pv) > current_data.depth8 - 4
    \/ relative_age(current_data, gen8) # 0

\* TTWriter::write: "Overwrite less valuable entries (cheapest checks first)"
WriteReplaces(current_key, current_data, k, pv, b, d, gen8) ==
    \/ b = BOUND_EXACT
    \/ ToU16(k) # current_key
    \/ d - DEPTH_ENTRY_OFFSET + 2 * B2I(pv) > current_data.depth8 - 4
    \/ relative_age(current_data, gen8) # 0

\* The fields of a replacing write with the depth stored one too low
WriteNewDataDepthBelow(current_data, v, pv, b, d, ev, gen8) ==
    [current_data EXCEPT
       !.depth8    = ToU8(d - DEPTH_ENTRY_OFFSET - 1),
       !.genBound8 = ToU8(BitOr(BitOr(gen8, B2I(pv) * 4), b)),
       !.value16   = ToI16(v),
       !.eval16    = ToI16(ev)]

\* The fields TTWriter::write assigns when it replaces
WriteNewData(current_data, v, pv, b, d, ev, gen8) ==
    [current_data EXCEPT
       !.depth8    = ToU8(d - DEPTH_ENTRY_OFFSET),
       !.genBound8 = ToU8(BitOr(BitOr(gen8, B2I(pv) * 4), b)),
       !.value16   = ToI16(v),
       !.eval16    = ToI16(ev)]

\* Seeded fault: a write that does not replace ages the stored depth by one
WriteOutcomeDecay(current_key, current_packed, k, v, pv, b, d, m, ev, gen8) ==
    LET loaded  == Unpack(current_packed)
        update  == WriteUpdatesMove(current_key, k, m)
        current_data == IF update THEN [loaded EXCEPT !.move16 = m] ELSE loaded
        decayed == [current_data EXCEPT !.depth8 = IF @ > 1 THEN @ - 1 ELSE @]
    IN  IF WriteReplaces(current_key, current_data, k, pv, b, d, gen8)
        THEN [storeKey |-> TRUE, key |-> ToU16(k), storeData |-> TRUE,
              data |-> Pack(WriteNewData(current_data, v, pv, b, d, ev, gen8))]
        ELSE [storeKey |-> FALSE, key |-> current_key, storeData |-> TRUE,
              data |-> Pack(decayed)]

\* A write whose move-only refresh stores the new value and eval along with the move
WriteOutcomeRefreshValue(current_key, current_packed, k, v, pv, b, d, m, ev, gen8) ==
    LET loaded  == Unpack(current_packed)
        update  == WriteUpdatesMove(current_key, k, m)
        current_data == IF update THEN [loaded EXCEPT !.move16 = m] ELSE loaded
    IN  IF WriteReplaces(current_key, current_data, k, pv, b, d, gen8)
        THEN [storeKey |-> TRUE, key |-> ToU16(k), storeData |-> TRUE,
              data |-> Pack(WriteNewData(current_data, v, pv, b, d, ev, gen8))]
        ELSE IF update
        THEN [storeKey |-> FALSE, key |-> current_key, storeData |-> TRUE,
              data |-> Pack([current_data EXCEPT !.value16 = ToI16(v),
                                                 !.eval16 = ToI16(ev)])]
        ELSE [storeKey |-> FALSE, key |-> current_key, storeData |-> FALSE,
              data |-> current_packed]

\* The outcome of TTWriter::write on the key and payload it loaded:
\* which stores it performs and with what values
WriteOutcome(current_key, current_packed, k, v, pv, b, d, m, ev, gen8) ==
    LET loaded  == Unpack(current_packed)
        update  == WriteUpdatesMove(current_key, k, m)
        current_data == IF update THEN [loaded EXCEPT !.move16 = m] ELSE loaded
    IN  IF WriteReplaces(current_key, current_data, k, pv, b, d, gen8)
        THEN [storeKey |-> TRUE, key |-> ToU16(k), storeData |-> TRUE,
              data |-> Pack(WriteNewData(current_data, v, pv, b, d, ev, gen8))]
        ELSE IF update
        THEN [storeKey |-> FALSE, key |-> current_key, storeData |-> TRUE,
              data |-> Pack(current_data)]
        ELSE [storeKey |-> FALSE, key |-> current_key, storeData |-> FALSE,
              data |-> current_packed]

\* A replacement loop in which the highest index wins ties
RECURSIVE ReplaceIdxLastWins(_, _, _, _)
ReplaceIdxLastWins(cluster, gen8, replace_idx, i) ==
    IF i >= ClusterSize THEN replace_idx
    ELSE LET current   == Unpack(cluster[replace_idx].data)
             candidate == Unpack(cluster[i].data)
         IN  IF current.depth8 - relative_age(current, gen8)
                  >= candidate.depth8 - relative_age(candidate, gen8)
             THEN ReplaceIdxLastWins(cluster, gen8, i, i + 1)
             ELSE ReplaceIdxLastWins(cluster, gen8, replace_idx, i + 1)

\* The replacement loop of probe, from index i on
RECURSIVE ReplaceIdx(_, _, _, _)
ReplaceIdx(cluster, gen8, replace_idx, i) ==
    IF i >= ClusterSize THEN replace_idx
    ELSE LET current   == Unpack(cluster[replace_idx].data)
             candidate == Unpack(cluster[i].data)
         IN  IF current.depth8 - relative_age(current, gen8)
                  > candidate.depth8 - relative_age(candidate, gen8)
             THEN ReplaceIdx(cluster, gen8, i, i + 1)
             ELSE ReplaceIdx(cluster, gen8, replace_idx, i + 1)

\* The first index from i on whose key equals key16, or ClusterSize
RECURSIVE FirstMatch(_, _, _)
FirstMatch(cluster, key16, i) ==
    IF i >= ClusterSize THEN ClusterSize
    ELSE IF cluster[i].key = key16 THEN i
    ELSE FirstMatch(cluster, key16, i + 1)

DefaultTTData ==
    [move |-> MOVE_NONE, value |-> VALUE_NONE, eval |-> VALUE_NONE,
     depth |-> DEPTH_ENTRY_OFFSET, bound |-> BOUND_NONE, is_pv |-> FALSE]

\* TranspositionTable::probe
ProbeResult(tbl, gen8, key) ==
    LET c == ClusterOf(key)
        i == FirstMatch(tbl[c], ToU16(key), 0)
    IN  IF i < ClusterSize
        THEN LET data == Unpack(tbl[c][i].data)
             IN  [found |-> is_occupied(data), data |-> ReadData(data), writer |-> <<c, i>>]
        ELSE [found |-> FALSE, data |-> DefaultTTData,
              writer |-> <<c, ReplaceIdx(tbl[c], gen8, 0, 1)>>]

\* The clusters thread i zeroes when the last thread takes a stride like the others
ClearSliceStrideOnly(i, threadCount) ==
    LET stride == ClusterCount \div threadCount
        start  == stride * i
    IN  {j \in Clusters : start <= j /\ j < start + stride}

\* The clusters thread i of threadCount zeroes in TranspositionTable::clear
ClearSlice(i, threadCount) ==
    LET stride == ClusterCount \div threadCount
        start  == stride * i
        len    == IF i + 1 # threadCount THEN stride ELSE ClusterCount - start
    IN  {j \in Clusters : start <= j /\ j < start + len}

ZeroEntry == [key |-> 0, data |-> ZeroPacked]
NoWrite == [op |-> "none"]

TTInit ==
    /\ table = [c \in Clusters |-> [i \in EntryIdx |-> ZeroEntry]]
    /\ generation8 = 0
    /\ ttWriter = <<>>
    /\ ttProbe = [op |-> "none"]
    /\ ttLast = NoWrite
    /\ ttSearches = 0
    /\ ttThreads = <<>>
    /\ ttStored = {}

\* TranspositionTable::probe(key)
Probe(key) ==
    LET r == ProbeResult(table, generation8, key)
    IN  /\ ttProbe' = [op |-> "probe", key |-> key, found |-> r.found, data |-> r.data]
        /\ ttWriter' = r.writer
        /\ ttLast' = NoWrite
        /\ UNCHANGED <<table, generation8, ttSearches, ttThreads, ttStored>>

\* TTWriter::write(k, v, pv, b, d, m, ev, generation8) through the writer of the last probe
Write(k, v, pv, b, d, m, ev) ==
    /\ ttWriter # <<>>
    /\ d > DEPTH_ENTRY_OFFSET /\ d < 256 + DEPTH_ENTRY_OFFSET
    /\ LET c   == ttWriter[1]
           i   == ttWriter[2]
           e   == table[c][i]
           out == WriteOutcome(e.key, e.data, k, v, pv, b, d, m, ev, generation8)
           args == [k |-> k, v |-> v, pv |-> pv, b |-> b, d |-> d, m |-> m,
                    ev |-> ev, gen8 |-> generation8]
       IN  /\ table' = [table EXCEPT ![c][i] =
                          [key  |-> IF out.storeKey THEN out.key ELSE e.key,
                           data |-> IF out.storeData THEN out.data ELSE e.data]]
           /\ ttLast' = [op |-> "write", args |-> args, before |-> e,
                         storeKey |-> out.storeKey, storeData |-> out.storeData,
                         again |-> (ttLast.op = "write" /\ ttLast.args = args)]
    /\ ttProbe' = [op |-> "none"]
    /\ UNCHANGED <<generation8, ttWriter, ttSearches, ttThreads, ttStored>>

\* TranspositionTable::new_search: generation8 += GENERATION_DELTA on a uint8_t
new_search(gen8) == ToU8(gen8 + GENERATION_DELTA)

\* TranspositionTable::new_search
NewSearch ==
    /\ ttSearches < MaxSearches
    /\ generation8' = new_search(generation8)
    /\ ttSearches' = ttSearches + 1
    /\ ttLast' = NoWrite
    /\ ttProbe' = [op |-> "none"]
    /\ UNCHANGED <<table, ttWriter, ttThreads, ttStored>>

\* The number of occupied entries of a table
HeldEntries(tbl) ==
    Cardinality({<<c, i>> \in Clusters \X EntryIdx : is_occupied(Unpack(tbl[c][i].data))})

\* The table after the threads of TranspositionTable::clear have zeroed their slices
ClearedTable(tbl, threadCount) ==
    [c \in Clusters |->
        IF \E t \in 0 .. (threadCount - 1) : c \in ClearSlice(t, threadCount)
        THEN [i \in EntryIdx |-> ZeroEntry]
        ELSE tbl[c]]

\* TranspositionTable::clear(threads): every thread zeroes its slice, then all are joined
Clear(threadCount) ==
    /\ generation8' = 0
    /\ table' = ClearedTable(table, threadCount)
    /\ ttSearches' = 0
    /\ ttWriter' = <<>>
    /\ ttLast' = [op |-> "clear", held |-> HeldEntries(table)]
    /\ ttProbe' = [op |-> "none"]
    /\ UNCHANGED <<ttThreads, ttStored>>

\* What aligned_large_pages_alloc may return: memory of any content
AllocatedTables ==
    {[c \in Clusters |-> [i \in EntryIdx |-> ZeroEntry]],
     [c \in Clusters |-> [i \in EntryIdx |->
         [key |-> 1 + i, data |-> Pack([ZeroData8 EXCEPT !.depth8 = 1 + c, !.genBound8 = 8 * i])]]]}

\* TranspositionTable::resize(mbSize, threads) for the mbSize that gives ClusterCount
\* clusters: the table is freed and allocated again, then cleared
Resize(threadCount) ==
    /\ \E allocated \in AllocatedTables :
          /\ table' = ClearedTable(allocated, threadCount)
          /\ ttLast' = [op |-> "resize", held |-> HeldEntries(allocated)]
    /\ generation8' = 0
    /\ ttSearches' = 0
    /\ ttWriter' = <<>>
    /\ ttProbe' = [op |-> "none"]
    /\ UNCHANGED <<ttThreads, ttStored>>

\* The number of clusters TranspositionTable::hashfull samples (1000 in the source)
HashfullSample == 1

\* hashfull returning the count itself, not divided by the cluster size
hashfull_count(tbl, gen8, maxAge) ==
    Cardinality({<<i, j>> \in (0 .. (HashfullSample - 1)) \X EntryIdx :
                    /\ is_occupied(Unpack(tbl[i][j].data))
                    /\ relative_age(Unpack(tbl[i][j].data), gen8) <= maxAge * Pow2(GENERATION_BITS)})

\* TranspositionTable::hashfull(maxAge)
hashfull(tbl, gen8, maxAge) ==
    Cardinality({<<i, j>> \in (0 .. (HashfullSample - 1)) \X EntryIdx :
                    /\ is_occupied(Unpack(tbl[i][j].data))
                    /\ relative_age(Unpack(tbl[i][j].data), gen8) <= maxAge * Pow2(GENERATION_BITS)})
        \div ClusterSize

\* The engine asks for hashfull(maxAge), as it does for every info line
Hashfull(maxAge) ==
    /\ ttLast' = [op |-> "hashfull", maxAge |-> maxAge,
                  value |-> hashfull(table, generation8, maxAge)]
    /\ ttProbe' = [op |-> "none"]
    /\ UNCHANGED <<table, generation8, ttWriter, ttSearches, ttThreads, ttStored>>

(***************************************************************************)
(* The transposition table shared by several threads.                      *)
(*                                                                         *)
(* Every load and store of an atomic is one step.  All accesses are        *)
(* memory_order_relaxed: the two stores of a replacing write become        *)
(* visible to the other threads in either order.                           *)
(***************************************************************************)
Threads == {1, 2}
ConcKeys == {1, 2}
\* The node thread t stores: its depth, move and value
ConcDepth(t) == IF t = 1 THEN -6 ELSE -2
ConcMove(t)  == IF t = 1 THEN MOVE_NONE ELSE 300 + t
ConcValue(t) == 10 + t

\* Seeded fault: a store of the payload that writes only its low four bytes
TornStore64(old, new) == [j \in 1 .. 8 |-> IF j <= 4 THEN new[j] ELSE old[j]]

\* std::atomic<uint64_t>::store: the eight bytes are replaced as one
AtomicStore64(old, new) == new

NoResult == [op |-> "none"]
NoStores == [key |-> <<>>, data |-> <<>>]
IdleThread ==
    [pc |-> "idle", key |-> 0, i |-> 0, ridx |-> 0, cur |-> ZeroPacked, ckey |-> 0,
     writer |-> <<>>, pend |-> NoStores, res |-> NoResult]

TTConcInit ==
    /\ table = [c \in Clusters |-> [i \in EntryIdx |-> ZeroEntry]]
    /\ generation8 = 0
    /\ ttWriter = <<>>
    /\ ttProbe = [op |-> "none"]
    /\ ttLast = NoWrite
    /\ ttSearches = 0
    /\ ttThreads = [t \in Threads |-> IdleThread]
    /\ ttStored = [payloads |-> {},
                   keyBy  |-> [c \in Clusters |-> [i \in EntryIdx |-> 0]],
                   dataBy |-> [c \in Clusters |-> [i \in EntryIdx |-> 0]]]

ConcUnchanged == UNCHANGED <<generation8, ttWriter, ttProbe, ttLast, ttSearches>>

\* probe(key) is entered by thread t
ConcProbeStart(t, key) ==
    /\ ttThreads[t].pc = "idle"
    /\ ttThreads' = [ttThreads EXCEPT ![t] =
                       [IdleThread EXCEPT !.pc = "probe_key", !.key = key]]
    /\ UNCHANGED <<table, ttStored>>
    /\ ConcUnchanged

\* probe: cluster->keys[i].load(relaxed) == key16
ConcProbeLoadKey(t) ==
    LET th == ttThreads[t]
        c  == ClusterOf(th.key)
    IN  /\ th.pc = "probe_key"
        /\ ttThreads' = [ttThreads EXCEPT ![t] =
              IF table[c][th.i].key = ToU16(th.key)
              THEN [th EXCEPT !.pc = "probe_data", !.ckey = ttStored.keyBy[c][th.i]]
              ELSE IF th.i + 1 < ClusterSize
              THEN [th EXCEPT !.i = th.i + 1]
              ELSE [th EXCEPT !.pc = "probe_current", !.i = 1, !.ridx = 0]]
        /\ UNCHANGED <<table, ttStored>>
        /\ ConcUnchanged

\* probe: read_raw() of the matching entry and return
ConcProbeLoadData(t) ==
    LET th == ttThreads[t]
        c  == ClusterOf(th.key)
        packed == table[c][th.i].data
    IN  /\ th.pc = "probe_data"
        /\ ttThreads' = [ttThreads EXCEPT ![t] =
              [IdleThread EXCEPT
                 !.key = th.key,
                 !.writer = <<c, th.i>>,
                 !.res = [op |-> "probe", found |-> is_occupied(Unpack(packed)),
                          hit |-> TRUE, key16 |-> ToU16(th.key), packed |-> packed,
                          keyBy |-> th.ckey, dataBy |-> ttStored.dataBy[c][th.i]]]]
        /\ UNCHANGED <<table, ttStored>>
        /\ ConcUnchanged

\* probe, replacement loop: current = read_raw() of entry replace_idx
ConcProbeLoadCurrent(t) ==
    LET th == ttThreads[t]
        c  == ClusterOf(th.key)
    IN  /\ th.pc = "probe_current"
        /\ ttThreads' = [ttThreads EXCEPT ![t] =
              [th EXCEPT !.pc = "probe_candidate", !.cur = table[c][th.ridx].data]]
        /\ UNCHANGED <<table, ttStored>>
        /\ ConcUnchanged

\* probe, replacement loop: candidate = read_raw() of entry i, compare, next i or return
ConcProbeLoadCandidate(t) ==
    LET th == ttThreads[t]
        c  == ClusterOf(th.key)
        current   == Unpack(th.cur)
        candidate == Unpack(table[c][th.i].data)
        ridx == IF current.depth8 - relative_age(current, generation8)
                     > candidate.depth8 - relative_age(candidate, generation8)
                THEN th.i ELSE th.ridx
    IN  /\ th.pc = "probe_candidate"
        /\ ttThreads' = [ttThreads EXCEPT ![t] =
              IF th.i + 1 < ClusterSize
              THEN [th EXCEPT !.pc = "probe_current", !.i = th.i + 1, !.ridx = ridx,
                              !.cur = ZeroPacked]
              ELSE [IdleThread EXCEPT
                      !.key = th.key,
                      !.writer = <<c, ridx>>,
                      !.res = [op |-> "probe", found |-> FALSE, hit |-> FALSE,
                               key16 |-> ToU16(th.key), packed |-> ZeroPacked,
                               keyBy |-> 0, dataBy |-> 0]]]
        /\ UNCHANGED <<table, ttStored>>
        /\ ConcUnchanged

\* write(key, ...) is entered by thread t through the writer of its last probe,
\* and loads the key: key_atomic->load(relaxed)
ConcWriteLoadKey(t) ==
    LET th == ttThreads[t]
    IN  /\ th.pc = "idle"
        /\ th.writer # <<>>
        /\ ttThreads' = [ttThreads EXCEPT ![t] =
              [th EXCEPT !.pc = "write_data", !.res = NoResult,
                         !.ckey = table[th.writer[1]][th.writer[2]].key]]
        /\ UNCHANGED <<table, ttStored>>
        /\ ConcUnchanged

\* write(k, v, false, BOUND_LOWER, d, m, 4, generation8) by thread t:
\* data_atomic->load(relaxed), then the stores to perform are decided
ConcWriteLoadDataOf(t, v, d, m) ==
    LET th  == ttThreads[t]
        out == WriteOutcome(th.ckey, table[th.writer[1]][th.writer[2]].data,
                            th.key, v, FALSE, BOUND_LOWER, d, m, 4, generation8)
    IN  /\ th.pc = "write_data"
        /\ ttThreads' = [ttThreads EXCEPT ![t] =
              [th EXCEPT !.pc = "write_store", !.ckey = 0,
                         !.pend = [key  |-> IF out.storeKey THEN <<out.key>> ELSE <<>>,
                                   data |-> IF out.storeData THEN <<out.data>> ELSE <<>>]]]
        /\ UNCHANGED <<table, ttStored>>
        /\ ConcUnchanged

\* write: the node of thread t
ConcWriteLoadData(t) == ConcWriteLoadDataOf(t, ConcValue(t), ConcDepth(t), ConcMove(t))

\* write: key_atomic->store(uint16_t(k), relaxed) becomes visible
ConcWriteStoreKey(t) ==
    LET th == ttThreads[t]
        c  == th.writer[1]
        i  == th.writer[2]
    IN  /\ th.pc = "write_store"
        /\ th.pend.key # <<>>
        /\ table' = [table EXCEPT ![c][i].key = th.pend.key[1]]
        /\ ttStored' = [ttStored EXCEPT !.keyBy[c][i] = t]
        /\ ttThreads' = [ttThreads EXCEPT ![t] =
              IF th.pend.data = <<>>
              THEN [IdleThread EXCEPT !.key = th.key]
              ELSE [th EXCEPT !.pend.key = <<>>]]
        /\ ConcUnchanged

\* write: data_atomic->store(packed_new_data, relaxed) becomes visible
ConcWriteStoreData(t) ==
    LET th == ttThreads[t]
        c  == th.writer[1]
        i  == th.writer[2]
    IN  /\ th.pc = "write_store"
        /\ th.pend.data # <<>>
        /\ table' = [table EXCEPT ![c][i].data = AtomicStore64(@, th.pend.data[1])]
        /\ ttStored' = [ttStored EXCEPT !.payloads = @ \cup {th.pend.data[1]},
                                        !.dataBy[c][i] = t]
        /\ ttThreads' = [ttThreads EXCEPT ![t] =
              IF th.pend.key = <<>>
              THEN [IdleThread EXCEPT !.key = th.key]
              ELSE [th EXCEPT !.pend.data = <<>>]]
        /\ ConcUnchanged

\* write: nothing to store, return
ConcWriteReturn(t) ==
    LET th == ttThreads[t]
    IN  /\ th.pc = "write_store"
        /\ th.pend = NoStores
        /\ ttThreads' = [ttThreads EXCEPT ![t] = [IdleThread EXCEPT !.key = th.key]]
        /\ UNCHANGED <<table, ttStored>>
        /\ ConcUnchanged

(***************************************************************************)
(* History tables: src/src/history.h                                       *)
(***************************************************************************)
\* Bound of the model: every D up to MaxHistD is explored with every bonus and every
\* entry value; the D of the program's tables with the extreme bonuses
MaxHistD == 12

\* The D of ButterflyHistory, CapturePieceToHistory, PieceToHistory, PawnHistory and
\* the correction histories
TableDs == {7183, 10692, 29952, 8192, 1024}
HistDs == (1 .. MaxHistD) \cup TableDs

\* The bonuses passed to operator<<: callers keep them in [-D, D]
HistBonuses(D) ==
    IF D <= MaxHistD THEN (-D) .. D
    ELSE {-D, D \div 2, D}

\* The values passed to Stats::fill
HistFills(D) ==
    IF D <= MaxHistD THEN (-D) .. D ELSE {-D, 0, D}

\* Seeded fault: the decay term multiplies by the bonus instead of its absolute value
StatsUpdateNoAbs(entry, bonus, D) ==
    ToI16(entry + bonus - TruncDiv(entry * bonus, D))

\* StatsEntry<int16_t, D>::operator<<: entry += bonus - entry * std::abs(bonus) / D
StatsUpdate(entry, bonus, D) ==
    ToI16(entry + bonus - TruncDiv(entry * Abs(bonus), D))

NoUpdate == [op |-> "none"]

HistInit ==
    /\ hD = 0
    /\ hEntry = 0
    /\ hLast = NoUpdate

\* Stats<int16_t, D, ...>::fill(v): the table of the entry under observation is filled
HistFill(D, v) ==
    /\ hD' = D
    /\ hEntry' = ToI16(v)
    /\ hLast' = NoUpdate

\* StatsEntry::operator<<(bonus), with the outcome of its two asserts
HistUpdate(bonus) ==
    /\ hD > 0
    /\ hEntry' = StatsUpdate(hEntry, bonus, hD)
    /\ hLast' = [op |-> "update", bonus |-> bonus, before |-> hEntry,
                 assertBonus |-> (Abs(bonus) <= hD),
                 assertEntry |-> (Abs(StatsUpdate(hEntry, bonus, hD)) <= hD)]
    /\ UNCHANGED hD

(***************************************************************************)
(* Network files and their parser: src/src/nnue/network.cpp                *)
(*                                                                         *)
(* A stream is a sequence of tokens: a token stands for one little-endian  *)
(* 32-bit word of the header, one byte of the description, or one unit of  *)
(* a component's parameters.  A file is a stream, or does not exist.       *)
(***************************************************************************)
\* nnue_common.h and nnue_architecture.h are not part of the sources at hand: the
\* version word, the three hash values and the shape of the components stand for theirs
Version   == 1
NetHash   == 2
FTHash    == 3
LayerHash == 4

\* Bounds of the model: number of layer stacks (8 in the program), units of
\* parameters of the feature transformer and of one layer stack
LayerStacks     == 2
FTPayloadLen    == 1
LayerPayloadLen == 1

NoFile == [exists |-> FALSE, bytes |-> <<>>]
FileOf(bytes) == [exists |-> TRUE, bytes |-> bytes]

\* std::ifstream stream(path, std::ios::binary) / std::istream stream(&buffer):
\* the read position and the failbit; opening a file that does not exist sets failbit
StreamOpen(file) == [s |-> file.bytes, pos |-> 1, fail |-> ~file.exists]

\* n successive reads of one token (read_little_endian, stream.read, read_leb_128):
\* a read past the end sets failbit and delivers zero
ReadN(st, n) ==
    LET left  == Len(st.s) - st.pos + 1
        avail == IF st.fail THEN 0 ELSE Min(n, left)
    IN  [st   |-> [st EXCEPT !.pos = @ + avail, !.fail = st.fail \/ avail < n],
         vals |-> [i \in 1 .. n |-> IF i <= avail THEN st.s[st.pos + i - 1] ELSE 0]]

\* Network::read_header
ReadHeader(st) ==
    With(ReadN(st, 3), LAMBDA r :
        IF r.st.fail \/ r.vals[1] # Version
        THEN [ok |-> FALSE, st |-> r.st, hashValue |-> r.vals[2], desc |-> <<>>]
        ELSE With(ReadN(r.st, r.vals[3]), LAMBDA d :
                 [ok |-> ~d.st.fail, st |-> d.st, hashValue |-> r.vals[2],
                  desc |-> d.vals]))

\* Detail::read_parameters(stream, reference): the component's hash, then its parameters,
\* which are written to memory as they are read
ReadComponent(st, hash, len, old) ==
    With(ReadN(st, 1), LAMBDA h :
        IF h.st.fail \/ h.vals[1] # hash
        THEN [ok |-> FALSE, st |-> h.st, vals |-> old]
        ELSE With(ReadN(h.st, len), LAMBDA q :
                 [ok |-> ~q.st.fail, st |-> q.st, vals |-> q.vals]))

\* Seeded fault: the end of the stream is not checked
NoEofCheck(st) == ~st.fail

\* stream && stream.peek() == EOF
AtEof(st) == ~st.fail /\ st.pos > Len(st.s)

\* Network::initialize: every parameter zeroed
ZeroParams ==
    [ft |-> [i \in 1 .. FTPayloadLen |-> 0],
     layers |-> [l \in 1 .. LayerStacks |-> [i \in 1 .. LayerPayloadLen |-> 0]]]

\* The loop over the layer stacks of Network::read_parameters, from stack l on
RECURSIVE ReadLayers(_, _, _)
ReadLayers(st, params, l) ==
    IF l > LayerStacks THEN [ok |-> AtEof(st), params |-> params]
    ELSE With(ReadComponent(st, LayerHash, LayerPayloadLen, params.layers[l]), LAMBDA c :
             IF ~c.ok THEN [ok |-> FALSE, params |-> [params EXCEPT !.layers[l] = c.vals]]
             ELSE ReadLayers(c.st, [params EXCEPT !.layers[l] = c.vals], l + 1))

\* Network::read_parameters on the parameters in memory
ReadParameters(st, params) ==
    With(ReadHeader(st), LAMBDA h :
        IF ~h.ok THEN [ok |-> FALSE, desc |-> h.desc, params |-> params]
        ELSE IF h.hashValue # NetHash THEN [ok |-> FALSE, desc |-> h.desc, params |-> params]
        ELSE With(ReadComponent(h.st, FTHash, FTPayloadLen, params.ft), LAMBDA f :
                 IF ~f.ok
                 THEN [ok |-> FALSE, desc |-> h.desc, params |-> [params EXCEPT !.ft = f.vals]]
                 ELSE With(ReadLayers(f.st, [params EXCEPT !.ft = f.vals], 1), LAMBDA r :
                          [ok |-> r.ok, desc |-> h.desc, params |-> r.params])))

\* Network::load(std::istream&): initialize(), then read_parameters; the description
\* is <<desc>>, or <<>> for std::nullopt
LoadStream(file) ==
    With(ReadParameters(StreamOpen(file), ZeroParams), LAMBDA r :
        [description |-> IF r.ok THEN <<r.desc>> ELSE <<>>, params |-> r.params])

\* Seeded fault: the name becomes the current one whether the stream parsed or not
LoadNetMarksCurrent(net, name, file) ==
    With(LoadStream(file), LAMBDA r :
        [evalFile |-> [net.evalFile EXCEPT
                         !.current = name,
                         !.netDescription = IF r.description # <<>>
                                            THEN r.description[1] ELSE <<>>],
         params |-> r.params,
         ok |-> r.description # <<>>])

\* Network::loadUserNet / Network::loadInternal on the network [evalFile, params]
LoadNet(net, name, file) ==
    With(LoadStream(file), LAMBDA r :
        [evalFile |-> IF r.description # <<>>
                      THEN [net.evalFile EXCEPT !.current = name,
                                                !.netDescription = r.description[1]]
                      ELSE net.evalFile,
         params |-> r.params,
         ok |-> r.description # <<>>])

\* A file written by Network::save: header, description, feature transformer, layer
\* stacks, every parameter unit equal to id
GoodBytes(desc, id) ==
    LET layer == <<LayerHash>> \o [i \in 1 .. LayerPayloadLen |-> id]
        RECURSIVE Stacks(_)
        Stacks(l) == IF l = 0 THEN <<>> ELSE layer \o Stacks(l - 1)
    IN  <<Version, NetHash, Len(desc)>> \o desc \o <<FTHash>>
          \o [i \in 1 .. FTPayloadLen |-> id] \o Stacks(LayerStacks)

(***************************************************************************)
(* Network::load(rootDirectory, evalfilePath) and Network::verify          *)
(***************************************************************************)
DefaultName == "nn-default.nnue"
UserNames == {"a.nnue"}
\* The evalfilePath arguments: empty stands for the default name
LoadNames == {"", DefaultName} \cup UserNames
FileNames == {DefaultName} \cup UserNames

InternalDir == "<internal>"
CwdDir  == ""
RootDir == "/engine/"
\* std::vector<std::string> dirs (DEFAULT_NNUE_DIRECTORY is not defined)
Dirs == <<InternalDir, CwdDir, RootDir>>

\* What a file of the working or root directory holds when it is opened
DiskFiles ==
    { NoFile,
      FileOf(GoodBytes(<<7>>, 5)),
      FileOf(GoodBytes(<<>>, 6)),
      FileOf(SubSeq(GoodBytes(<<>>, 6), 1, 3 + 1 + FTPayloadLen)) }

\* The embedded network of the build: a network file, or the single zero byte of a
\* build without embedding
EmbeddedFiles == { FileOf(GoodBytes(<<7, 7>>, 5)), FileOf(<<0>>) }
Unlinked == [exists |-> FALSE, bytes |-> <<0>>]

\* Seeded fault: every source is opened whatever evalFile.current holds
AlwaysTry(current, evalfilePath) == TRUE

\* Network::load: if (evalFile.current != evalfilePath)
ShouldTry(current, evalfilePath) == current # evalfilePath

\* The body of the loop of Network::load for dirs[i] .. dirs[3]: r holds the network
\* and the sources opened so far
RECURSIVE LoadFrom(_, _, _, _)
LoadFrom(r, evalfilePath, files, i) ==
    IF i > Len(Dirs) THEN r
    ELSE IF /\ ShouldTry(r.net.evalFile.current, evalfilePath)
            /\ \/ Dirs[i] # InternalDir
               \/ evalfilePath = r.net.evalFile.defaultName
    THEN With(LoadNet(r.net, evalfilePath, files[i]), LAMBDA l :
             LoadFrom([net |-> [evalFile |-> l.evalFile, params |-> l.params],
                       attempts |-> Append(r.attempts, [dir |-> Dirs[i], ok |-> l.ok])],
                      evalfilePath, files, i + 1))
    ELSE LoadFrom(r, evalfilePath, files, i + 1)

NoLoad == [op |-> "none"]
NoNet == [loaded |-> FALSE]

NetInit ==
    /\ evalFile = [defaultName |-> DefaultName, current |-> "None", netDescription |-> <<>>]
    /\ netParams = ZeroParams
    /\ netFiles = Unlinked
    /\ netLog = NoLoad
    /\ netGood = [n \in FileNames |-> NoNet]

\* Network::load(rootDirectory, evalfilePath); embedded is the embedded network of this
\* build, fCwd and fRoot what the two files hold if they are opened
NetLoad(path, embedded, fCwd, fRoot) ==
    /\ netLog.op # "exit"
    /\ netFiles = Unlinked \/ netFiles = embedded
    /\ \E evalfilePath \in {IF path = "" THEN evalFile.defaultName ELSE path} :
       \E r \in {LoadFrom([net |-> [evalFile |-> evalFile, params |-> netParams],
                           attempts |-> <<>>],
                          evalfilePath, <<embedded, fCwd, fRoot>>, 1)} :
           /\ evalFile' = r.net.evalFile
           /\ netParams' = r.net.params
           /\ netFiles' = embedded
           /\ netLog' = [op |-> "load", name |-> evalfilePath,
                         wasCurrent |-> (evalFile.current = evalfilePath),
                         attempts |-> r.attempts]
           /\ netGood' = IF Len(r.attempts) > 0 /\ r.attempts[Len(r.attempts)].ok
                         THEN [netGood EXCEPT ![evalfilePath] =
                                 [loaded |-> TRUE, params |-> r.net.params]]
                         ELSE netGood

\* Network::verify(evalfilePath): the process exits when the name is not the current one
NetVerify(path) ==
    /\ netLog.op # "exit"
    /\ LET evalfilePath == IF path = "" THEN evalFile.defaultName ELSE path
       IN  netLog' = IF evalFile.current # evalfilePath
                     THEN [op |-> "exit", name |-> evalfilePath, after |-> netLog]
                     ELSE [op |-> "verify", name |-> evalfilePath]
    /\ UNCHANGED <<evalFile, netParams, netFiles, netGood>>

(***************************************************************************)
(* Network::loadUserNet on arbitrary streams                               *)
(***************************************************************************)
\* The streams explored: the files Network::save writes, and each of them cut short
\* at every length, with one token replaced, or with one token appended
SavedStreams == { GoodBytes(<<>>, 5), GoodBytes(<<7>>, 6) }
OtherTokens == {0, LayerHash}
ParseStreams ==
    SavedStreams
      \cup UNION { { SubSeq(g, 1, n) : n \in 0 .. (Len(g) - 1) } : g \in SavedStreams }
      \cup UNION { { [g EXCEPT ![i] = t] : i \in 1 .. Len(g), t \in OtherTokens } :
                   g \in SavedStreams }
      \cup { Append(g, t) : g \in SavedStreams, t \in OtherTokens }
ParseFiles == {NoFile} \cup { FileOf(b) : b \in ParseStreams }

ParseInit ==
    /\ pStream = NoFile
    /\ pResult = NoLoad

\* Network::loadUserNet(dir, evalfilePath) where the file opened holds `file`
ParseLoad(evalfilePath, file) ==
    \E l \in {LoadNet([evalFile |-> evalFile, params |-> netParams], evalfilePath, file)} :
        /\ evalFile' = l.evalFile
        /\ netParams' = l.params
        /\ pStream' = file
        /\ pResult' = [op |-> "load", name |-> evalfilePath, ok |-> l.ok,
                       before |-> evalFile]
        /\ UNCHANGED <<netFiles, netLog, netGood>>

(***************************************************************************)
(* Positions, moves and feature sets of the accumulator model.             *)
(*                                                                         *)
(* position.cpp (do_move), types.h (DirtyPiece, DirtyThreats) and the      *)
(* feature sets (nnue/features) are not part of the sources at hand.  The  *)
(* board is one rank; a rook slides along it, a king steps to a            *)
(* neighbouring square; kings are never captured.                          *)
(***************************************************************************)
WHITE == 0
BLACK == 1
Colors == {WHITE, BLACK}

NO_PIECE == "--"
\* The root position of the search
RootBoard == <<"WK", "WR", "--", "BR", "BK">>
NSq == Len(RootBoard)
Squares == 1 .. NSq
SQ_NONE == 0

color_of(pc) == IF pc \in {"WK", "WR"} THEN WHITE ELSE BLACK
IsKing(pc) == pc \in {"WK", "BK"}
make_king(c) == IF c = WHITE THEN "WK" ELSE "BK"
PieceCode(pc) == IF pc = "WK" THEN 0 ELSE IF pc = "WR" THEN 1 ELSE IF pc = "BK" THEN 2 ELSE 3

\* pos.square<KING>(c)
KingSquare(board, c) == CHOOSE sq \in Squares : board[sq] = make_king(c)
\* pos.pieces()
Occupied(board) == {sq \in Squares : board[sq] # NO_PIECE}

\* The squares a piece on from attacks: a king its neighbours, a rook every square up
\* to and including the first occupied one on either side
Attacks(board, from) ==
    IF IsKing(board[from])
    THEN {sq \in Squares : sq = from - 1 \/ sq = from + 1}
    ELSE {sq \in Squares : sq # from /\ \A mid \in Squares :
              ((from < mid /\ mid < sq) \/ (sq < mid /\ mid < from)) => board[mid] = NO_PIECE}

\* A move of side us: to an empty square, or capturing an enemy piece that is no king
IsMove(board, us, mv) ==
    /\ board[mv.from] # NO_PIECE
    /\ color_of(board[mv.from]) = us
    /\ mv.to \in Attacks(board, mv.from)
    /\ \/ board[mv.to] = NO_PIECE
       \/ color_of(board[mv.to]) # us /\ ~IsKing(board[mv.to])

\* The board after Position::do_move
BoardAfter(board, mv) ==
    [sq \in Squares |-> IF sq = mv.from THEN NO_PIECE
                        ELSE IF sq = mv.to THEN board[mv.from]
                        ELSE board[sq]]

\* struct DirtyPiece as do_move fills it
NoDirtyPiece ==
    [pc |-> NO_PIECE, from |-> SQ_NONE, to |-> SQ_NONE, remove_sq |-> SQ_NONE,
     remove_pc |-> NO_PIECE, add_sq |-> SQ_NONE, add_pc |-> NO_PIECE]
DirtyPieceOf(board, mv) ==
    [pc |-> board[mv.from], from |-> mv.from, to |-> mv.to,
     remove_sq |-> IF board[mv.to] # NO_PIECE THEN mv.to ELSE SQ_NONE,
     remove_pc |-> board[mv.to],
     add_sq |-> SQ_NONE, add_pc |-> NO_PIECE]

\* The threats of a position: piece pc on from attacks piece threatened_pc on to
ThreatsOf(board) ==
    {[pc |-> board[from], from |-> from, threatened_pc |-> board[to], to |-> to] :
        <<from, to>> \in {ft \in Occupied(board) \X Occupied(board) :
                             ft[2] \in Attacks(board, ft[1])}}

\* A set of records as a list, in a fixed order
RECURSIVE SetToList(_)
SetToList(S) ==
    IF S = {} THEN <<>>
    ELSE LET x == CHOOSE y \in S : TRUE IN <<x>> \o SetToList(S \ {x})

\* struct DirtyThreats as do_move fills it: the threats that ended and those that began
NoDirtyThreats ==
    [list |-> <<>>, us |-> WHITE, prevKsq |-> SQ_NONE, ksq |-> SQ_NONE,
     threatenedSqs |-> {}, threateningSqs |-> {}]
DirtyThreatsOf(board, mv) ==
    With([before |-> ThreatsOf(board), after |-> ThreatsOf(BoardAfter(board, mv)),
          us |-> color_of(board[mv.from])], LAMBDA t :
    With([gone |-> t.before \ t.after, new |-> t.after \ t.before], LAMBDA ch :
        LET tag(S, add) == {[pc |-> th.pc, from |-> th.from,
                             threatened_pc |-> th.threatened_pc,
                             to |-> th.to, add |-> add] : th \in S}
        IN  [list |-> SetToList(tag(ch.gone, FALSE)) \o SetToList(tag(ch.new, TRUE)),
             us |-> t.us,
             prevKsq |-> KingSquare(board, t.us),
             ksq |-> KingSquare(BoardAfter(board, mv), t.us),
             threatenedSqs |-> {th.to : th \in ch.gone \cup ch.new},
             threateningSqs |-> {th.from : th \in ch.gone \cup ch.new}]))

(***************************************************************************)
(* Feature sets (spec-modelled) and feature transformer weights.           *)
(***************************************************************************)
\* PSQFeatureSet::make_index(perspective, sq, pc, ksq): one index per king square of the
\* perspective, piece and square
make_index(perspective, sq, pc, ksq) ==
    (((perspective * NSq + (ksq - 1)) * 4 + PieceCode(pc)) * NSq) + (sq - 1)

\* PSQFeatureSet::append_active_indices
append_active_indices(perspective, board) ==
    {make_index(perspective, sq, board[sq], KingSquare(board, perspective)) :
        sq \in Occupied(board)}

\* PSQFeatureSet::append_changed_indices(perspective, ksq, diff, removed, added)
append_changed_indices(perspective, ksq, diff, removed, added) ==
    [removed |->
        Append(removed, make_index(perspective, diff.from, diff.pc, ksq))
          \o (IF diff.remove_sq # SQ_NONE
              THEN <<make_index(perspective, diff.remove_sq, diff.remove_pc, ksq)>>
              ELSE <<>>),
     added |->
        added
          \o (IF diff.to # SQ_NONE
              THEN <<make_index(perspective, diff.to, diff.pc, ksq)>>
              ELSE <<>>)
          \o (IF diff.add_sq # SQ_NONE
              THEN <<make_index(perspective, diff.add_sq, diff.add_pc, ksq)>>
              ELSE <<>>)]

\* PSQFeatureSet::requires_refresh(diff, perspective)
requires_refresh(diff, perspective) == diff.pc = make_king(perspective)

\* The board is mirrored for a perspective whose king stands on the upper half
Mirrored(ksq) == 2 * ksq > NSq + 1
OrientSq(ksq, sq) == IF Mirrored(ksq) THEN NSq + 1 - sq ELSE sq

\* ThreatFeatureSet::make_index(perspective, attacker, attacked, from, to, ksq)
threat_index(perspective, attacker, attacked, from, to, ksq) ==
    ((((perspective * 4 + PieceCode(attacker)) * 4 + PieceCode(attacked)) * NSq
        + (OrientSq(ksq, from) - 1)) * NSq) + (OrientSq(ksq, to) - 1)

\* ThreatFeatureSet::append_active_indices
threat_append_active_indices(perspective, board) ==
    {threat_index(perspective, th.pc, th.threatened_pc, th.from, th.to,
                  KingSquare(board, perspective)) : th \in ThreatsOf(board)}

\* ThreatFeatureSet::requires_refresh(diff, perspective)
threat_requires_refresh(diff, perspective) ==
    perspective = diff.us /\ Mirrored(diff.ksq) # Mirrored(diff.prevKsq)

\* FusedUpdateData
NoFused == [on |-> FALSE, dp2removed |-> SQ_NONE, origin |-> {}, target |-> {}]

\* ThreatFeatureSet::append_changed_indices(perspective, ksq, diff, removed, added,
\* fusedData, first), from entry n of diff.list on
RECURSIVE threat_append_changed_indices(_, _, _, _, _, _, _, _)
threat_append_changed_indices(perspective, ksq, list, n, removed, added, fused, first) ==
    IF n > Len(list) THEN [removed |-> removed, added |-> added, fused |-> fused]
    ELSE With(list[n], LAMBDA d :
         With([origin |-> fused.on /\ d.from = fused.dp2removed,
               target |-> fused.on /\ d.to = fused.dp2removed,
               index  |-> threat_index(perspective, d.pc, d.threatened_pc, d.from, d.to,
                                       ksq)], LAMBDA at :
         With(IF at.origin /\ d.add /\ first
                  THEN [removed |-> removed, added |-> added,
                        fused |-> [fused EXCEPT !.origin = @ \cup {d.to}]]
              ELSE IF at.origin /\ ~d.add /\ d.to \in fused.origin
                  THEN [removed |-> removed, added |-> added, fused |-> fused]
              ELSE IF at.target /\ d.add /\ first
                  THEN [removed |-> removed, added |-> added,
                        fused |-> [fused EXCEPT !.target = @ \cup {d.from}]]
              ELSE IF at.target /\ ~d.add /\ d.from \in fused.target
                  THEN [removed |-> removed, added |-> added, fused |-> fused]
              ELSE IF d.add
                  THEN [removed |-> removed, added |-> Append(added, at.index),
                        fused |-> fused]
              ELSE [removed |-> Append(removed, at.index), added |-> added,
                    fused |-> fused], LAMBDA r :
         threat_append_changed_indices(perspective, ksq, list, n + 1, r.removed, r.added,
                                       r.fused, first))))

\* FeatureTransformer: biases, weights, psqtWeights, threatWeights, threatPsqtWeights,
\* with Dimensions = 1 and PSQTBuckets = 1
Bias == 7
Weight(index) == (index * index + 3 * index + 1) % 509
PsqtWeight(index) == (2 * index * index + index + 5) % 1021
ThreatWeight(index) == (index * index + 5 * index + 2) % 503
ThreatPsqtWeight(index) == (3 * index * index + index + 1) % 1019

\* Sum of the numbers of a list, and of a function over a set of indices
RECURSIVE SumList(_, _)
SumList(list, n) ==
    IF n > Len(list) THEN 0 ELSE list[n] + SumList(list, n + 1)
RECURSIVE SumOver(_, _)
SumOver(S, f) ==
    IF S = {} THEN 0
    ELSE LET x == CHOOSE y \in S : TRUE IN f[x] + SumOver(S \ {x}, f)

(***************************************************************************)
(* Accumulator stacks: src/src/nnue/nnue_accumulator_new.h and             *)
(* src/src/nnue/nnue_accumulator.cpp.                                      *)
(*                                                                         *)
(* posAt is the list of the positions of the plies searched (posAt[i + 1]  *)
(* is the position at ply i), psqt and threat are the two stacks of        *)
(* BigNetworkAccumulator (psqt alone is SmallNetworkAccumulator), cache is *)
(* the Finny table and accLast describes the last call: a stack operation  *)
(* (reset, push, pop) or an evaluate with its outcome.                     *)
(***************************************************************************)
\* The most plies pushed on a stack (MAX_PLY)
MaxPly == 2
MaxSize == MaxPly + 1
StackIdx == 0 .. (MaxSize - 1)

\* The positions a search starts from
RootBoards == {RootBoard}

\* What an accumulator row holds before it is first written
Uninitialized == -1

\* AccumulatorStateSimple after construction
FreshState(diff) ==
    [diff |-> diff,
     computed |-> [c \in Colors |-> FALSE],
     accumulation |-> [c \in Colors |-> Uninitialized],
     psqtAccumulation |-> [c \in Colors |-> Uninitialized]]

\* AccumulatorStateSimple::reset(dp)
StateReset(state, dp) ==
    [state EXCEPT !.diff = dp, !.computed = [c \in Colors |-> FALSE]]

\* UpdateHalfka::latest, UpdateThreats::latest
Latest(st) == st.acc[st.size - 1]

\* UpdateHalfka::reset_empty, UpdateThreats::reset_empty
reset_empty(st, none) ==
    [size |-> 1, acc |-> [st.acc EXCEPT ![0] = StateReset(@, none)]]

\* A push that assigns the diff and leaves the computed flags of the slot
StackPushKeepingFlags(st, none, diff) ==
    [size |-> st.size + 1,
     acc |-> [st.acc EXCEPT ![st.size].diff = diff]]

\* UpdateHalfka::reset, UpdateThreats::reset, followed by the assignment of the diff
StackPush(st, none, diff) ==
    [size |-> st.size + 1,
     acc |-> [st.acc EXCEPT ![st.size] = [StateReset(@, none) EXCEPT !.diff = diff]]]

\* UpdateHalfka::pop, UpdateThreats::pop
StackPop(st) == [st EXCEPT !.size = @ - 1]

\* AccumulatorCaches::Cache::Entry::clear
ClearEntry ==
    [accumulation |-> Bias, psqtAccumulation |-> 0,
     pieces |-> [sq \in Squares |-> NO_PIECE], pieceBB |-> {}]

\* AccumulatorUpdateContext::apply<ops...>(indices...) without the caller's marking of the
\* row as computed
apply_indices_unmarked(perspective, from, to, added, removed) ==
    [to EXCEPT
       !.accumulation[perspective] =
           ToI16(from.accumulation[perspective]
                 + SumList([n \in 1 .. Len(added) |-> Weight(added[n])], 1)
                 - SumList([n \in 1 .. Len(removed) |-> Weight(removed[n])], 1)),
       !.psqtAccumulation[perspective] =
           from.psqtAccumulation[perspective]
           + SumList([n \in 1 .. Len(added) |-> PsqtWeight(added[n])], 1)
           - SumList([n \in 1 .. Len(removed) |-> PsqtWeight(removed[n])], 1)]

\* AccumulatorUpdateContext::apply<ops...>(indices...): the row of from plus the weights
\* of added minus those of removed is written to the row of to; the caller's marking of
\* the row as computed is part of it
apply_indices(perspective, from, to, added, removed) ==
    [to EXCEPT
       !.accumulation[perspective] =
           ToI16(from.accumulation[perspective]
                 + SumList([n \in 1 .. Len(added) |-> Weight(added[n])], 1)
                 - SumList([n \in 1 .. Len(removed) |-> Weight(removed[n])], 1)),
       !.psqtAccumulation[perspective] =
           from.psqtAccumulation[perspective]
           + SumList([n \in 1 .. Len(added) |-> PsqtWeight(added[n])], 1)
           - SumList([n \in 1 .. Len(removed) |-> PsqtWeight(removed[n])], 1),
       !.computed[perspective] = TRUE]

\* AccumulatorUpdateContext::apply(added, removed), which uses the threat weights; the
\* caller's marking of the row as computed is part of it
apply_lists(perspective, from, to, added, removed) ==
    [to EXCEPT
       !.accumulation[perspective] =
           ToI16(from.accumulation[perspective]
                 - SumList([n \in 1 .. Len(removed) |-> ThreatWeight(removed[n])], 1)
                 + SumList([n \in 1 .. Len(added) |-> ThreatWeight(added[n])], 1)),
       !.psqtAccumulation[perspective] =
           from.psqtAccumulation[perspective]
           - SumList([n \in 1 .. Len(removed) |-> ThreatPsqtWeight(removed[n])], 1)
           + SumList([n \in 1 .. Len(added) |-> ThreatPsqtWeight(added[n])], 1),
       !.computed[perspective] = TRUE]

\* The first n elements of a list, as the fixed-arity apply<...> calls take them
FirstOf(list, n) == SubSeq(list, 1, n)

\* update_accumulator_incremental<Forward, PSQFeatureSet> with the update direction of the
\* backward pass not swapped
update_accumulator_incremental_no_swap(forward, perspective, ksq, target, computed) ==
    With(append_changed_indices(perspective, ksq,
                                IF forward THEN target.diff ELSE computed.diff, <<>>, <<>>),
         LAMBDA ch :
        [state |-> apply_indices(perspective, computed, target, FirstOf(ch.added, 1),
                                 ch.removed),
         ok |-> computed.computed[perspective] /\ ~target.computed[perspective]])

\* update_accumulator_incremental<Forward, PSQFeatureSet>
update_accumulator_incremental(forward, perspective, ksq, target, computed) ==
    With(append_changed_indices(perspective, ksq,
                                IF forward THEN target.diff ELSE computed.diff, <<>>, <<>>),
         LAMBDA ch :
    With([added   |-> IF forward THEN ch.added ELSE ch.removed,
          removed |-> IF forward THEN ch.removed ELSE ch.added,
          na      |-> IF forward THEN Len(ch.added) ELSE Len(ch.removed),
          nr      |-> IF forward THEN Len(ch.removed) ELSE Len(ch.added)], LAMBDA l :
    With([a |-> IF (forward /\ l.nr = 1) \/ (~forward /\ l.na = 1) THEN 1
                ELSE IF forward /\ l.na = 1 THEN 1 ELSE 2,
          r |-> IF (forward /\ l.nr = 1) \/ (~forward /\ l.na = 1) THEN 1
                ELSE IF forward /\ l.na = 1 THEN 2
                ELSE IF ~forward /\ l.nr = 1 THEN 1 ELSE 2], LAMBDA use :
        [state |-> apply_indices(perspective, computed, target, FirstOf(l.added, use.a),
                                 FirstOf(l.removed, use.r)),
         ok |-> /\ computed.computed[perspective]
                /\ ~target.computed[perspective]
                /\ l.na \in {1, 2} /\ l.nr \in {1, 2}
                /\ (forward => l.na <= l.nr) /\ (~forward => l.na >= l.nr)
                /\ l.na = use.a /\ l.nr = use.r])))

\* double_inc_update for the PSQ stack with the three-term update in every case
double_inc_update_two_removed(perspective, ksq, middle_state, target_state, computed) ==
    With(append_changed_indices(perspective, ksq, middle_state.diff, <<>>, <<>>),
         LAMBDA ch1 :
    With(append_changed_indices(perspective, ksq, target_state.diff, ch1.removed, ch1.added),
         LAMBDA ch2 :
        [state |-> apply_indices(perspective, computed, target_state, FirstOf(ch2.added, 1),
                                 FirstOf(ch2.removed, 2)),
         ok |-> /\ computed.computed[perspective]
                /\ ~middle_state.computed[perspective]
                /\ ~target_state.computed[perspective]
                /\ Len(ch1.added) < 2
                /\ Len(ch2.added) = 1
                /\ Len(ch2.removed) \in {2, 3}]))

\* double_inc_update for the PSQ stack; the caller has set dp1.to and dp2.remove_sq to
\* SQ_NONE
double_inc_update(perspective, ksq, middle_state, target_state, computed) ==
    With(append_changed_indices(perspective, ksq, middle_state.diff, <<>>, <<>>),
         LAMBDA ch1 :
    With(append_changed_indices(perspective, ksq, target_state.diff, ch1.removed, ch1.added),
         LAMBDA ch2 :
        [state |-> apply_indices(perspective, computed, target_state, FirstOf(ch2.added, 1),
                                 FirstOf(ch2.removed, IF Len(ch2.removed) = 2 THEN 2 ELSE 3)),
         ok |-> /\ computed.computed[perspective]
                /\ ~middle_state.computed[perspective]
                /\ ~target_state.computed[perspective]
                /\ Len(ch1.added) < 2
                /\ Len(ch2.added) = 1
                /\ Len(ch2.removed) \in {2, 3}]))

\* A scan that stops at refresh-requiring entries only
RECURSIVE find_last_refresh_accumulator(_, _, _)
find_last_refresh_accumulator(st, perspective, curr_idx) ==
    IF curr_idx <= 0 THEN 0
    ELSE IF requires_refresh(st.acc[curr_idx].diff, perspective) THEN curr_idx
    ELSE find_last_refresh_accumulator(st, perspective, curr_idx - 1)

\* A scan that stops at computed entries only
RECURSIVE find_last_computed_accumulator(_, _, _)
find_last_computed_accumulator(st, perspective, curr_idx) ==
    IF curr_idx <= 0 THEN 0
    ELSE IF st.acc[curr_idx].computed[perspective] THEN curr_idx
    ELSE find_last_computed_accumulator(st, perspective, curr_idx - 1)

\* UpdateHalfka::find_last_usable_accumulator: the loop from curr_idx on
RECURSIVE find_last_usable_accumulator(_, _, _)
find_last_usable_accumulator(st, perspective, curr_idx) ==
    IF curr_idx <= 0 THEN 0
    ELSE IF st.acc[curr_idx].computed[perspective] THEN curr_idx
    ELSE IF requires_refresh(st.acc[curr_idx].diff, perspective) THEN curr_idx
    ELSE find_last_usable_accumulator(st, perspective, curr_idx - 1)

\* UpdateThreats::find_last_usable_accumulator: the loop from curr_idx on
RECURSIVE threat_find_last_usable_accumulator(_, _, _)
threat_find_last_usable_accumulator(st, perspective, curr_idx) ==
    IF curr_idx <= 0 THEN 0
    ELSE IF st.acc[curr_idx].computed[perspective] THEN curr_idx
    ELSE IF threat_requires_refresh(st.acc[curr_idx].diff, perspective) THEN curr_idx
    ELSE threat_find_last_usable_accumulator(st, perspective, curr_idx - 1)

\* A forward loop whose fused step restores the 'to' square of the lower entry but leaves
\* the removed square of the upper entry at SQ_NONE
RECURSIVE forward_update_loop_blanking(_, _, _, _, _)
forward_update_loop_blanking(st, perspective, ksq, next, res) ==
    IF next >= st.size THEN [st |-> st, ok |-> res.ok, fused |-> res.fused]
    ELSE IF /\ next + 1 < st.size
            /\ st.acc[next].diff.to # SQ_NONE
            /\ st.acc[next].diff.to = st.acc[next + 1].diff.remove_sq
    THEN With([captureSq |-> st.acc[next].diff.to,
               middle |-> [st.acc[next] EXCEPT !.diff.to = SQ_NONE],
               target |-> [st.acc[next + 1] EXCEPT !.diff.remove_sq = SQ_NONE]], LAMBDA f :
         With(double_inc_update(perspective, ksq, f.middle, f.target, st.acc[next - 1]),
              LAMBDA r :
             forward_update_loop_blanking(
                 [st EXCEPT !.acc[next] = [f.middle EXCEPT !.diff.to = f.captureSq],
                            !.acc[next + 1] = r.state],
                 perspective, ksq, next + 2, [ok |-> res.ok /\ r.ok, fused |-> TRUE])))
    ELSE With(update_accumulator_incremental(TRUE, perspective, ksq, st.acc[next],
                                             st.acc[next - 1]), LAMBDA r :
             forward_update_loop_blanking([st EXCEPT !.acc[next] = r.state], perspective,
                                          ksq, next + 1,
                                          [ok |-> res.ok /\ r.ok, fused |-> res.fused]))

\* UpdateHalfka::forward_update_incremental: the loop from next on
RECURSIVE forward_update_loop(_, _, _, _, _)
forward_update_loop(st, perspective, ksq, next, res) ==
    IF next >= st.size THEN [st |-> st, ok |-> res.ok, fused |-> res.fused]
    ELSE IF /\ next + 1 < st.size
            /\ st.acc[next].diff.to # SQ_NONE
            /\ st.acc[next].diff.to = st.acc[next + 1].diff.remove_sq
    THEN With([captureSq |-> st.acc[next].diff.to,
               middle |-> [st.acc[next] EXCEPT !.diff.to = SQ_NONE],
               target |-> [st.acc[next + 1] EXCEPT !.diff.remove_sq = SQ_NONE]], LAMBDA f :
         With(double_inc_update(perspective, ksq, f.middle, f.target, st.acc[next - 1]),
              LAMBDA r :
             forward_update_loop(
                 [st EXCEPT !.acc[next] = [f.middle EXCEPT !.diff.to = f.captureSq],
                            !.acc[next + 1] = [r.state EXCEPT !.diff.remove_sq = f.captureSq]],
                 perspective, ksq, next + 2, [ok |-> res.ok /\ r.ok, fused |-> TRUE])))
    ELSE With(update_accumulator_incremental(TRUE, perspective, ksq, st.acc[next],
                                             st.acc[next - 1]), LAMBDA r :
             forward_update_loop([st EXCEPT !.acc[next] = r.state], perspective, ksq,
                                 next + 1, [ok |-> res.ok /\ r.ok, fused |-> res.fused]))

\* A forward update that leaves the entry above begin as it is
forward_update_incremental_skipping(st, perspective, board, begin) ==
    With(forward_update_loop(st, perspective, KingSquare(board, perspective), begin + 2,
                             [ok |-> begin < MaxSize /\ st.acc[begin].computed[perspective],
                              fused |-> FALSE]), LAMBDA r :
        [r EXCEPT !.ok = @ /\ r.st.acc[st.size - 1].computed[perspective]])

\* UpdateHalfka::forward_update_incremental
forward_update_incremental(st, perspective, board, begin) ==
    With(forward_update_loop(st, perspective, KingSquare(board, perspective), begin + 1,
                             [ok |-> begin < MaxSize /\ st.acc[begin].computed[perspective],
                              fused |-> FALSE]), LAMBDA r :
        [r EXCEPT !.ok = @ /\ r.st.acc[st.size - 1].computed[perspective]])

\* UpdateHalfka::backward_update_incremental: the loop from next down
RECURSIVE backward_update_loop(_, _, _, _, _, _)
backward_update_loop(st, perspective, ksq, next, end, ok) ==
    IF next < end THEN [st |-> st, ok |-> ok]
    ELSE With(update_accumulator_incremental(FALSE, perspective, ksq, st.acc[next],
                                             st.acc[next + 1]), LAMBDA r :
             backward_update_loop([st EXCEPT !.acc[next] = r.state], perspective, ksq,
                                  next - 1, end, ok /\ r.ok))

\* A backward update whose loop stops one entry above end
backward_update_incremental_above_end(st, perspective, board, end) ==
    With(backward_update_loop(st, perspective, KingSquare(board, perspective),
                              st.size - 2, end + 1,
                              /\ end < MaxSize
                              /\ end < st.size
                              /\ Latest(st).computed[perspective]), LAMBDA r :
        [r EXCEPT !.ok = @ /\ r.st.acc[end].computed[perspective]])

\* UpdateHalfka::backward_update_incremental
backward_update_incremental(st, perspective, board, end) ==
    With(backward_update_loop(st, perspective, KingSquare(board, perspective),
                              st.size - 2, end,
                              /\ end < MaxSize
                              /\ end < st.size
                              /\ Latest(st).computed[perspective]), LAMBDA r :
        [r EXCEPT !.ok = @ /\ r.st.acc[end].computed[perspective]])

\* A refresh from the cache that adds the features of the new pieces without subtracting
\* those of the pieces that left the snapshot
update_accumulator_refresh_cache_added_only(perspective, board, accumulatorState, finny) ==
    With(KingSquare(board, perspective), LAMBDA ksq :
    With(finny[ksq][perspective], LAMBDA entry :
    With({sq \in Squares : entry.pieces[sq] # board[sq]}, LAMBDA changedBB :
    With({make_index(perspective, sq, board[sq], ksq) :
             sq \in changedBB \cap Occupied(board)}, LAMBDA added :
    With([accumulation |->
              ToI16(entry.accumulation + SumOver(added, [i \in added |-> Weight(i)])),
          psqtAccumulation |->
              entry.psqtAccumulation + SumOver(added, [i \in added |-> PsqtWeight(i)]),
          pieces |-> board,
          pieceBB |-> Occupied(board)], LAMBDA newEntry :
        [state |-> [accumulatorState EXCEPT
                       !.computed[perspective] = TRUE,
                       !.accumulation[perspective] = newEntry.accumulation,
                       !.psqtAccumulation[perspective] = newEntry.psqtAccumulation],
         cache |-> [finny EXCEPT ![ksq][perspective] = newEntry]])))))

\* update_accumulator_refresh_cache
update_accumulator_refresh_cache(perspective, board, accumulatorState, finny) ==
    With(KingSquare(board, perspective), LAMBDA ksq :
    With(finny[ksq][perspective], LAMBDA entry :
    With({sq \in Squares : entry.pieces[sq] # board[sq]}, LAMBDA changedBB :
    With([removed |-> {make_index(perspective, sq, entry.pieces[sq], ksq) :
                          sq \in changedBB \cap entry.pieceBB},
          added   |-> {make_index(perspective, sq, board[sq], ksq) :
                          sq \in changedBB \cap Occupied(board)}], LAMBDA ch :
    With([accumulation |->
              ToI16(entry.accumulation
                    - SumOver(ch.removed, [i \in ch.removed |-> Weight(i)])
                    + SumOver(ch.added, [i \in ch.added |-> Weight(i)])),
          psqtAccumulation |->
              entry.psqtAccumulation
              - SumOver(ch.removed, [i \in ch.removed |-> PsqtWeight(i)])
              + SumOver(ch.added, [i \in ch.added |-> PsqtWeight(i)]),
          pieces |-> board,
          pieceBB |-> Occupied(board)], LAMBDA newEntry :
        [state |-> [accumulatorState EXCEPT
                       !.computed[perspective] = TRUE,
                       !.accumulation[perspective] = newEntry.accumulation,
                       !.psqtAccumulation[perspective] = newEntry.psqtAccumulation],
         cache |-> [finny EXCEPT ![ksq][perspective] = newEntry]])))))

\* evaluate_psqt_side
evaluate_psqt_side(halfka, perspective, board, finny) ==
    With(find_last_usable_accumulator(halfka, perspective, halfka.size - 1), LAMBDA last :
        IF halfka.acc[last].computed[perspective]
        THEN With(forward_update_incremental(halfka, perspective, board, last), LAMBDA f :
                 [st |-> f.st, cache |-> finny, ok |-> f.ok, fused |-> f.fused,
                  last |-> last, forward |-> TRUE])
        ELSE With(update_accumulator_refresh_cache(perspective, board, Latest(halfka),
                                                   finny), LAMBDA r :
             With(backward_update_incremental(
                      [halfka EXCEPT !.acc[halfka.size - 1] = r.state],
                      perspective, board, last), LAMBDA b :
                 [st |-> b.st, cache |-> r.cache, ok |-> b.ok, fused |-> FALSE,
                  last |-> last, forward |-> FALSE])))

\* update_accumulator_incremental<Forward, ThreatFeatureSet>
threat_update_accumulator_incremental(forward, perspective, ksq, target, computed) ==
    With(threat_append_changed_indices(perspective, ksq,
             IF forward THEN target.diff.list ELSE computed.diff.list,
             1, <<>>, <<>>, NoFused, FALSE), LAMBDA ch :
        [state |-> apply_lists(perspective, computed, target,
                               IF forward THEN ch.added ELSE ch.removed,
                               IF forward THEN ch.removed ELSE ch.added),
         ok |-> computed.computed[perspective] /\ ~target.computed[perspective]])

\* double_inc_update for the threat stack
threat_double_inc_update(perspective, ksq, middle_state, target_state, computed, dp2) ==
    With(threat_append_changed_indices(perspective, ksq, middle_state.diff.list, 1,
             <<>>, <<>>,
             [on |-> TRUE, dp2removed |-> dp2.remove_sq, origin |-> {}, target |-> {}],
             TRUE), LAMBDA ch1 :
    With(threat_append_changed_indices(perspective, ksq, target_state.diff.list, 1,
             ch1.removed, ch1.added, ch1.fused, FALSE), LAMBDA ch2 :
        [state |-> apply_lists(perspective, computed, target_state, ch2.added, ch2.removed),
         ok |-> /\ computed.computed[perspective]
                /\ ~middle_state.computed[perspective]
                /\ ~target_state.computed[perspective]]))

\* UpdateThreats::forward_update_incremental: the loop from next on
RECURSIVE threat_forward_update_loop(_, _, _, _, _, _)
threat_forward_update_loop(st, perspective, ksq, psqtAcc, next, res) ==
    IF next >= st.size THEN [st |-> st, ok |-> res.ok, fused |-> res.fused]
    ELSE IF /\ next + 1 < st.size
            /\ psqtAcc[next + 1].diff.remove_sq # SQ_NONE
            /\ psqtAcc[next + 1].diff.remove_sq \in st.acc[next].diff.threateningSqs
    THEN With(threat_double_inc_update(perspective, ksq, st.acc[next], st.acc[next + 1],
                                       st.acc[next - 1], psqtAcc[next + 1].diff), LAMBDA r :
             threat_forward_update_loop([st EXCEPT !.acc[next + 1] = r.state], perspective,
                                        ksq, psqtAcc, next + 2,
                                        [ok |-> res.ok /\ r.ok, fused |-> TRUE]))
    ELSE With(threat_update_accumulator_incremental(TRUE, perspective, ksq, st.acc[next],
                                                    st.acc[next - 1]), LAMBDA r :
             threat_forward_update_loop([st EXCEPT !.acc[next] = r.state], perspective, ksq,
                                        psqtAcc, next + 1,
                                        [ok |-> res.ok /\ r.ok, fused |-> res.fused]))

\* UpdateThreats::forward_update_incremental
threat_forward_update_incremental(st, perspective, board, psqtAcc, begin) ==
    With(threat_forward_update_loop(st, perspective, KingSquare(board, perspective),
                                    psqtAcc, begin + 1,
                                    [ok |-> /\ begin < MaxSize
                                            /\ st.acc[begin].computed[perspective],
                                     fused |-> FALSE]), LAMBDA r :
        [r EXCEPT !.ok = @ /\ r.st.acc[st.size - 1].computed[perspective]])

\* UpdateThreats::backward_update_incremental: the loop from next down
RECURSIVE threat_backward_update_loop(_, _, _, _, _, _)
threat_backward_update_loop(st, perspective, ksq, next, end, ok) ==
    IF next < end THEN [st |-> st, ok |-> ok]
    ELSE With(threat_update_accumulator_incremental(FALSE, perspective, ksq,
                                                    st.acc[next], st.acc[next + 1]),
              LAMBDA r :
             threat_backward_update_loop([st EXCEPT !.acc[next] = r.state], perspective,
                                         ksq, next - 1, end, ok /\ r.ok))

\* UpdateThreats::backward_update_incremental
threat_backward_update_incremental(st, perspective, board, end) ==
    With(threat_backward_update_loop(st, perspective, KingSquare(board, perspective),
                                     st.size - 2, end,
                                     /\ end < MaxSize
                                     /\ end < st.size
                                     /\ Latest(st).computed[perspective]), LAMBDA r :
        [r EXCEPT !.ok = @ /\ r.st.acc[end].computed[perspective]])

\* update_threats_accumulator_full
update_threats_accumulator_full(perspective, board, accumulatorState) ==
    With(threat_append_active_indices(perspective, board), LAMBDA active :
        [accumulatorState EXCEPT
            !.computed[perspective] = TRUE,
            !.accumulation[perspective] =
                ToI16(SumOver(active, [i \in active |-> ThreatWeight(i)])),
            !.psqtAccumulation[perspective] =
                SumOver(active, [i \in active |-> ThreatPsqtWeight(i)])])

\* evaluate_threats_side
evaluate_threats_side(threats, psqtStack, perspective, board) ==
    With(threat_find_last_usable_accumulator(threats, perspective, threats.size - 1),
         LAMBDA last :
        IF threats.acc[last].computed[perspective]
        THEN With(threat_forward_update_incremental(threats, perspective, board,
                                                    psqtStack.acc, last), LAMBDA f :
                 [st |-> f.st, ok |-> f.ok, fused |-> f.fused, last |-> last,
                  forward |-> TRUE])
        ELSE With(threat_backward_update_incremental(
                      [threats EXCEPT !.acc[threats.size - 1] =
                          update_threats_accumulator_full(perspective, board,
                                                          Latest(threats))],
                      perspective, board, last), LAMBDA b :
                 [st |-> b.st, ok |-> b.ok, fused |-> FALSE, last |-> last,
                  forward |-> FALSE]))

\* What accLast holds before the first call
NoCall == [op |-> "none", ok |-> TRUE, fusedPsqt |-> FALSE, fusedThreat |-> FALSE]

\* The accumulators and the cache after construction, at the root position
AccInit ==
    /\ posAt = <<RootBoard>>
    /\ psqt = [size |-> 1, acc |-> [i \in StackIdx |-> FreshState(NoDirtyPiece)]]
    /\ threat = [size |-> 1, acc |-> [i \in StackIdx |-> FreshState(NoDirtyThreats)]]
    /\ cache = [ksq \in Squares |-> [c \in Colors |-> ClearEntry]]
    /\ accLast = NoCall

\* The side to move at the top of the stack: white moves first from every root
SideToMove == IF (Len(posAt) - 1) % 2 = 0 THEN WHITE ELSE BLACK

\* BigNetworkAccumulator::reset, at the start of a search from root
AccReset(root) ==
    /\ psqt' = reset_empty(psqt, NoDirtyPiece)
    /\ threat' = reset_empty(threat, NoDirtyThreats)
    /\ posAt' = <<root>>
    /\ accLast' = [NoCall EXCEPT !.op = "stack"]
    /\ UNCHANGED cache

\* BigNetworkAccumulator::push with the DirtyBoardData of move mv
AccPush(mv) ==
    /\ psqt.size < MaxSize
    /\ \E board \in {posAt[Len(posAt)]} :
        /\ IsMove(board, SideToMove, mv)
        /\ psqt' = StackPush(psqt, NoDirtyPiece, DirtyPieceOf(board, mv))
        /\ threat' = StackPush(threat, NoDirtyThreats, DirtyThreatsOf(board, mv))
        /\ posAt' = Append(posAt, BoardAfter(board, mv))
    /\ accLast' = [NoCall EXCEPT !.op = "stack"]
    /\ UNCHANGED cache

\* BigNetworkAccumulator::pop
AccPop ==
    /\ psqt.size > 1
    /\ psqt' = StackPop(psqt)
    /\ threat' = StackPop(threat)
    /\ posAt' = SubSeq(posAt, 1, Len(posAt) - 1)
    /\ accLast' = [NoCall EXCEPT !.op = "stack"]
    /\ UNCHANGED cache

\* BigNetworkAccumulator::evaluate on the position at the top of the stack
AccEvaluate ==
    \E board \in {posAt[Len(posAt)]} :
    \E pw \in {evaluate_psqt_side(psqt, WHITE, board, cache)} :
    \E tw \in {evaluate_threats_side(threat, pw.st, WHITE, board)} :
    \E pb \in {evaluate_psqt_side(pw.st, BLACK, board, pw.cache)} :
    \E tb \in {evaluate_threats_side(tw.st, pb.st, BLACK, board)} :
        /\ psqt' = pb.st
        /\ threat' = tb.st
        /\ cache' = pb.cache
        /\ accLast' = [op |-> "evaluate",
                       ok |-> pw.ok /\ tw.ok /\ pb.ok /\ tb.ok,
                       fusedPsqt |-> pw.fused \/ pb.fused,
                       fusedThreat |-> tw.fused \/ tb.fused]
        /\ UNCHANGED posAt


(***************************************************************************)
(* Network::save and Network::load on the stream it wrote:                 *)
(* src/src/nnue/network.cpp and src/src/nnue/nnue_feature_transformer.h.   *)
(*                                                                         *)
(* The feature transformer holds int16 biases and weights and int32 PSQT   *)
(* weights; permute_weights reads the int16 arrays as 64-bit words.  The   *)
(* layers of a stack (nnue_architecture.h) and LEB128 (nnue_common.h) are  *)
(* not part of the sources at hand.                                        *)
(***************************************************************************)
\* The builds: USE_AVX512 (which implies USE_AVX2), USE_AVX2 alone, neither
Builds == {"USE_AVX512", "USE_AVX2", "scalar"}

\* Dimensions of the model: one block of 16 words of biases (1024 or 128 values in the
\* program), one input feature, two PSQT buckets
HalfDimensions  == 64
InputDimensions == 1
PSQTBuckets     == 2
\* Number of parameter sets the model starts from
SaveSeeds == 4

\* A two's complement integer of the given width; the 32-bit values of the model stay
\* within the range of int32
ToInt(x, bits) ==
    IF bits >= 32 THEN x
    ELSE LET m == x % Pow2(bits) IN IF m >= Pow2(bits - 1) THEN m - Pow2(bits) ELSE m

\* The int16 array a seen as uint64_t words, and back
WordsOf(a) == [w \in 1 .. (Len(a) \div 4) |-> SubSeq(a, 4 * w - 3, 4 * w)]
ValuesOf(w) == [k \in 1 .. (4 * Len(w)) |-> w[((k - 1) \div 4) + 1][((k - 1) % 4) + 1]]

\* FeatureTransformer::order_packs on the block v (v[j] of the code is v[j + 1])
order_packs(v, build) ==
    IF build = "USE_AVX512"
    THEN [j \in 1 .. Len(v) |->
            CASE j - 1 \in {2, 3}   -> v[j + 6]
              [] j - 1 \in {8, 9}   -> v[j - 4]
              [] j - 1 \in {4, 5}   -> v[j - 2]
              [] j - 1 \in {6, 7}   -> v[j + 4]
              [] j - 1 \in {10, 11} -> v[j + 2]
              [] j - 1 \in {12, 13} -> v[j - 6]
              [] OTHER -> v[j]]
    ELSE IF build = "USE_AVX2"
    THEN [j \in 1 .. Len(v) |->
            CASE j - 1 \in {2, 3} -> v[j + 2]
              [] j - 1 \in {4, 5} -> v[j - 2]
              [] OTHER -> v[j]]
    ELSE v

\* Seeded fault: the permutation of the write is applied once more on read
inverse_order_packs_again(v, build) == order_packs(v, build)

\* FeatureTransformer::inverse_order_packs
inverse_order_packs(v, build) ==
    IF build = "USE_AVX512"
    THEN [j \in 1 .. Len(v) |->
            CASE j - 1 \in {2, 3}   -> v[j + 2]
              [] j - 1 \in {4, 5}   -> v[j + 4]
              [] j - 1 \in {8, 9}   -> v[j - 6]
              [] j - 1 \in {6, 7}   -> v[j + 6]
              [] j - 1 \in {12, 13} -> v[j - 2]
              [] j - 1 \in {10, 11} -> v[j - 4]
              [] OTHER -> v[j]]
    ELSE IF build = "USE_AVX2"
    THEN [j \in 1 .. Len(v) |->
            CASE j - 1 \in {2, 3} -> v[j + 2]
              [] j - 1 \in {4, 5} -> v[j - 2]
              [] OTHER -> v[j]]
    ELSE v

\* One loop of permute_weights: order_fn on every block of di words of the array a
permute_array(a, inverse, build) ==
    IF build = "scalar" THEN a
    ELSE LET di == IF build = "USE_AVX512" THEN 16 ELSE 8
             w  == WordsOf(a)
             blk(i) == IF inverse
                       THEN inverse_order_packs(SubSeq(w, i * di + 1, i * di + di), build)
                       ELSE order_packs(SubSeq(w, i * di + 1, i * di + di), build)
         IN  ValuesOf([k \in 1 .. Len(w) |-> blk((k - 1) \div di)[((k - 1) % di) + 1]])

\* FeatureTransformer::permute_weights: the biases, then every row of the weights
permute_weights(ft, inverse, build) ==
    [ft EXCEPT
       !.biases = permute_array(@, inverse, build),
       !.weights = [k \in 1 .. Len(@) |->
           permute_array(SubSeq(ft.weights,
                                ((k - 1) \div HalfDimensions) * HalfDimensions + 1,
                                ((k - 1) \div HalfDimensions + 1) * HalfDimensions),
                         inverse, build)[((k - 1) % HalfDimensions) + 1]]]

\* write_leb_128 (spec-modelled): the bytes of one value, low seven bits first
RECURSIVE LebBytes(_)
LebBytes(value) ==
    LET byte == value % 128
        rest == (value - byte) \div 128
    IN  IF (byte < 64 /\ rest = 0) \/ (byte >= 64 /\ rest = -1)
        THEN <<byte>>
        ELSE <<byte + 128>> \o LebBytes(rest)

\* The bytes of values[lo .. hi], computed by halves
RECURSIVE LebBytesOf(_, _, _)
LebBytesOf(values, lo, hi) ==
    IF lo > hi THEN <<>>
    ELSE IF lo = hi THEN LebBytes(values[lo])
    ELSE LebBytesOf(values, lo, (lo + hi) \div 2)
           \o LebBytesOf(values, ((lo + hi) \div 2) + 1, hi)

\* write_leb_128 (spec-modelled): the magic string, the byte count, the bytes
Leb128Magic == 128128
write_leb_128(values) ==
    With(LebBytesOf(values, 1, Len(values)), LAMBDA bytes : <<Leb128Magic, Len(bytes)>> \o bytes)

\* read_leb_128 (spec-modelled): one value of the given width
RECURSIVE ReadLebValue(_, _, _, _)
ReadLebValue(st, bits, shift, result) ==
    With(ReadN(st, 1), LAMBDA r :
      With(result + (r.vals[1] % 128) * Pow2(shift), LAMBDA sum :
        IF r.vals[1] < 128
        THEN [st |-> r.st,
              val |-> ToInt(IF bits <= shift + 7 \/ (r.vals[1] % 128) < 64
                            THEN sum ELSE sum - Pow2(shift + 7), bits)]
        ELSE IF shift + 7 < bits THEN ReadLebValue(r.st, bits, shift + 7, sum)
        ELSE [st |-> r.st, val |-> ToInt(sum, bits)]))

\* count successive values, read by halves
RECURSIVE ReadLebValues(_, _, _)
ReadLebValues(st, bits, count) ==
    IF count = 0 THEN [st |-> st, vals |-> <<>>]
    ELSE IF count = 1
    THEN With(ReadLebValue(st, bits, 0, 0), LAMBDA r : [st |-> r.st, vals |-> <<r.val>>])
    ELSE With(ReadLebValues(st, bits, count \div 2), LAMBDA a :
           With(ReadLebValues(a.st, bits, count - (count \div 2)), LAMBDA b :
               [st |-> b.st, vals |-> a.vals \o b.vals]))

\* read_leb_128 (spec-modelled): the magic string and the byte count, then count values
read_leb_128(st, bits, count) ==
    With(ReadN(st, 2), LAMBDA h : ReadLebValues(h.st, bits, count))

\* FeatureTransformer::write_parameters: the bytes written; the arrays in memory are
\* permuted for the write and permuted back after it
ft_write_parameters(ft, build) ==
    With(permute_weights(ft, FALSE, build), LAMBDA p :
        [bytes |-> write_leb_128(p.biases) \o write_leb_128(p.weights)
                     \o write_leb_128(p.psqtWeights),
         ft |-> permute_weights(p, TRUE, build)])

\* FeatureTransformer::read_parameters
ft_read_parameters(st, build) ==
    With(read_leb_128(st, 16, HalfDimensions), LAMBDA b :
      With(read_leb_128(b.st, 16, HalfDimensions * InputDimensions), LAMBDA w :
        With(read_leb_128(w.st, 32, PSQTBuckets * InputDimensions), LAMBDA p :
            [ok |-> ~p.st.fail, st |-> p.st,
             ft |-> permute_weights([biases |-> b.vals, weights |-> w.vals,
                                     psqtWeights |-> p.vals], TRUE, build)])))

\* Network::write_header
write_header(hashValue, desc) == <<Version, hashValue, Len(desc)>> \o desc

\* The loop over the layer stacks of Network::write_parameters
RECURSIVE WriteLayers(_, _)
WriteLayers(layers, l) ==
    IF l > LayerStacks THEN <<>> ELSE <<LayerHash>> \o layers[l] \o WriteLayers(layers, l + 1)

\* Network::write_parameters: the stream written and the network in memory afterwards
write_parameters(net, netDescription, build) ==
    With(ft_write_parameters(net.ft, build), LAMBDA f :
        [bytes |-> write_header(NetHash, netDescription) \o <<FTHash>> \o f.bytes
                     \o WriteLayers(net.layers, 1),
         net |-> [net EXCEPT !.ft = f.ft]])

\* Network::initialize with the arrays of the feature transformer
ZeroNet ==
    [ft |-> [biases |-> [k \in 1 .. HalfDimensions |-> 0],
             weights |-> [k \in 1 .. (HalfDimensions * InputDimensions) |-> 0],
             psqtWeights |-> [k \in 1 .. (PSQTBuckets * InputDimensions) |-> 0]],
     layers |-> ZeroParams.layers]

\* Network::read_parameters with FeatureTransformer::read_parameters in full
read_parameters(st, net, build) ==
    With(ReadHeader(st), LAMBDA h :
        IF ~h.ok \/ h.hashValue # NetHash THEN [ok |-> FALSE, desc |-> h.desc, net |-> net]
        ELSE With(ReadN(h.st, 1), LAMBDA x :
          IF x.st.fail \/ x.vals[1] # FTHash THEN [ok |-> FALSE, desc |-> h.desc, net |-> net]
          ELSE With(ft_read_parameters(x.st, build), LAMBDA f :
            IF ~f.ok THEN [ok |-> FALSE, desc |-> h.desc, net |-> [net EXCEPT !.ft = f.ft]]
            ELSE With(ReadLayers(f.st, [net EXCEPT !.ft = f.ft], 1), LAMBDA r :
                     [ok |-> r.ok, desc |-> h.desc, net |-> r.params]))))

\* Values at the ends of the ranges of one, two and three LEB128 bytes
EdgeValues == <<-32768, -8193, -8192, -65, -64, -1, 0, 63, 64, 8191, 8192, 32767>>

\* The parameter sets the model starts from: the first biases are the edge values in an
\* order that depends on the seed, the words of an array are all different
SaveNetOf(seed) ==
    [ft |-> [biases |-> [k \in 1 .. HalfDimensions |->
                           IF k <= Len(EdgeValues)
                           THEN EdgeValues[((k + seed) % Len(EdgeValues)) + 1]
                           ELSE ToInt(seed * 577 * k - 19000, 16)],
             weights |-> [k \in 1 .. (HalfDimensions * InputDimensions) |->
                            ToInt(seed * 3 * k - 100, 16)],
             psqtWeights |-> [k \in 1 .. (PSQTBuckets * InputDimensions) |->
                                ToInt((3 - 2 * k) * seed * 100003 + k, 32)]],
     layers |-> [l \in 1 .. LayerStacks |-> [i \in 1 .. LayerPayloadLen |-> seed + 10 * l + i]]]

SaveNames == {"", "None", "a.nnue"}
SaveDescriptions == {<<>>, <<7, 8>>}

NoSave == [op |-> "none"]
NoSavedFile == [written |-> FALSE]

\* The build is fixed at compile time
SaveInitIn(builds) ==
    /\ svBuild \in builds
    /\ svNet = SaveNetOf(1)
    /\ svFile = NoSavedFile
    /\ svLast = NoSave

\* The parameters in memory become those of another network
SaveSet(seed) ==
    /\ svNet' = SaveNetOf(seed)
    /\ svLast' = [op |-> "set", seed |-> seed]
    /\ UNCHANGED <<svBuild, svFile>>

\* Network::save(stream, name, netDescription)
SaveSave(name, netDescription) ==
    /\ IF name = "" \/ name = "None"
       THEN /\ svLast' = [op |-> "save", ok |-> FALSE]
            /\ UNCHANGED <<svNet, svFile>>
       ELSE \E w \in {write_parameters(svNet, netDescription, svBuild)} :
                /\ svNet' = w.net
                /\ svFile' = [written |-> TRUE, bytes |-> w.bytes, net |-> svNet,
                              desc |-> netDescription]
                /\ svLast' = [op |-> "save", ok |-> TRUE]
    /\ UNCHANGED svBuild

\* Network::load(std::istream&) on the stream written by the last save
SaveLoad ==
    /\ svFile.written
    /\ \E r \in {read_parameters(StreamOpen(FileOf(svFile.bytes)), ZeroNet, svBuild)} :
           /\ svNet' = r.net
           /\ svLast' = [op |-> "load", ok |-> r.ok, desc |-> r.desc]
    /\ UNCHANGED <<svBuild, svFile>>


(***************************************************************************)
(* Engine::set_position and the deque of StateInfo: src/src/engine.cpp.    *)
(*                                                                         *)
(* states is the deque (a record is designated by its index, 0 stands for  *)
(* nullptr) and stPos the Position's pointer st.  Position::do_move and    *)
(* the move generator are not part of the sources at hand: a move string   *)
(* is either the notation of a legal move or not.                          *)
(***************************************************************************)
\* Longest list of moves passed to set_position
MaxMoves == 4
MoveStrings == {"e2e4", "g1f3", "e2e5"}
SetFens == {"startpos", "kiwipete"}

\* UCI::to_move: the legal move whose notation is str, or Move::none()
to_move(str) == IF str \in {"e2e4", "g1f3"} THEN str ELSE "none"

\* std::memset(si, 0, sizeof(StateInfo))
ZeroStateInfo == [previous |-> 0, rule50 |-> 0, pliesFromNull |-> 0, move |-> "none"]

\* Position::do_move(m, newSt) (spec-modelled): the copied fields of *st are copied to
\* newSt, newSt.previous = st, st = &newSt, and the counters advance; newSt is the
\* index of the record passed
do_move(deque, st, m, newSt) ==
    [states |-> [deque EXCEPT ![newSt] = [previous |-> st,
                                          rule50 |-> deque[st].rule50 + 1,
                                          pliesFromNull |-> deque[st].pliesFromNull + 1,
                                          move |-> m]],
     st |-> newSt]

\* The loop of Engine::set_position from moves[i] on
RECURSIVE ApplyMoves(_, _, _, _)
ApplyMoves(deque, st, moves, i) ==
    IF i > Len(moves) \/ to_move(moves[i]) = "none"
    THEN [states |-> deque, st |-> st, applied |-> i - 1]
    ELSE With(do_move(deque, st, to_move(moves[i]), Len(deque)), LAMBDA r :
             ApplyMoves(r.states, r.st, moves, i + 1))

StatesInit ==
    /\ states = <<ZeroStateInfo>>
    /\ stPos = [st |-> 1, fen |-> "startpos"]
    /\ stLast = [op |-> "none"]

\* Engine::set_position(fen, moves)
SetPosition(fen, moves) ==
    \E r \in {ApplyMoves(<<ZeroStateInfo>>, 1, moves, 1)} :
        /\ states' = r.states
        /\ stPos' = [st |-> r.st, fen |-> fen]
        /\ stLast' = [op |-> "set_position", moves |-> moves, applied |-> r.applied]


(***************************************************************************)
(* Position::set(fenStr, isChess960, si) and Position::fen():              *)
(* src/src/position.cpp.                                                   *)
(*                                                                         *)
(* A string is the sequence of its characters.  Squares are 0 (a1) to 63   *)
(* (h8), 64 is SQ_NONE; a piece is its FEN letter.  The fields of the      *)
(* Position and of the StateInfo that neither set nor fen reads back (hash *)
(* keys, bitboards derived from the board) are left out.                   *)
(***************************************************************************)
\* "rnbqkbnr/pppppppp/8/8/8/8/PPPPPPPP/RNBQKBNR w KQkq - 0 1"
StartFEN ==
    <<"r", "n", "b", "q", "k", "b", "n", "r", "/", "p", "p", "p", "p", "p", "p", "p", "p",
      "/", "8", "/", "8", "/", "8", "/", "8", "/", "P", "P", "P", "P", "P", "P", "P", "P",
      "/", "R", "N", "B", "Q", "K", "B", "N", "R", " ", "w", " ", "K", "Q", "k", "q", " ",
      "-", " ", "0", " ", "1">>
\* "r3k2r/p1ppqpb1/bn2pnp1/3PN3/1p2P3/2N2Q1p/PPPBBPPP/R3K2R w KQkq - 0 1"
KiwipeteFEN ==
    <<"r", "3", "k", "2", "r", "/", "p", "1", "p", "p", "q", "p", "b", "1", "/", "b", "n",
      "2", "p", "n", "p", "1", "/", "3", "P", "N", "3", "/", "1", "p", "2", "P", "3", "/",
      "2", "N", "2", "Q", "1", "p", "/", "P", "P", "P", "B", "B", "P", "P", "P", "/", "R",
      "3", "K", "2", "R", " ", "w", " ", "K", "Q", "k", "q", " ", "-", " ", "0", " ", "1">>
\* "rnbqkbnr/ppp1pppp/8/8/3pP3/8/PPPP1PPP/RNBQKBNR b KQkq e3 0 3"
EnPassantFEN ==
    <<"r", "n", "b", "q", "k", "b", "n", "r", "/", "p", "p", "p", "1", "p", "p", "p", "p",
      "/", "8", "/", "8", "/", "3", "p", "P", "3", "/", "8", "/", "P", "P", "P", "P", "1",
      "P", "P", "P", "/", "R", "N", "B", "Q", "K", "B", "N", "R", " ", "b", " ", "K", "Q",
      "k", "q", " ", "e", "3", " ", "0", " ", "3">>
\* "8/8/4k3/8/8/3K4/8/8 b - - 57 80"
EndgameFEN ==
    <<"8", "/", "8", "/", "4", "k", "3", "/", "8", "/", "8", "/", "3", "K", "4", "/", "8",
      "/", "8", " ", "b", " ", "-", " ", "-", " ", "5", "7", " ", "8", "0">>
\* "bnr3k1/4qppp/3b1n2/1p6/2pP4/4PN2/1BQNBPPP/5RK1 w - - 2 17"
TestFEN ==
    <<"b", "n", "r", "3", "k", "1", "/", "4", "q", "p", "p", "p", "/", "3", "b", "1", "n",
      "2", "/", "1", "p", "6", "/", "2", "p", "P", "4", "/", "4", "P", "N", "2", "/", "1",
      "B", "Q", "N", "B", "P", "P", "P", "/", "5", "R", "K", "1", " ", "w", " ", "-", " ",
      "-", " ", "2", " ", "1", "7">>
\* "rnbqkbnr/pppppppp/8/8/8/8/PPPPPPPP/RNBQKBNR w"
NoFieldsFEN ==
    <<"r", "n", "b", "q", "k", "b", "n", "r", "/", "p", "p", "p", "p", "p", "p", "p", "p",
      "/", "8", "/", "8", "/", "8", "/", "8", "/", "P", "P", "P", "P", "P", "P", "P", "P",
      "/", "R", "N", "B", "Q", "K", "B", "N", "R", " ", "w">>
\* "rnbqkbnr/pppppppp/8/8/8/8/PPPPPPPP/RNBQKBNR x KQkq - 0 1"
BadSideFEN ==
    <<"r", "n", "b", "q", "k", "b", "n", "r", "/", "p", "p", "p", "p", "p", "p", "p", "p",
      "/", "8", "/", "8", "/", "8", "/", "8", "/", "P", "P", "P", "P", "P", "P", "P", "P",
      "/", "R", "N", "B", "Q", "K", "B", "N", "R", " ", "x", " ", "K", "Q", "k", "q", " ",
      "-", " ", "0", " ", "1">>
\* "rnbqkbnr/pppppppp/8/8/8/8/PPPPPPPP/RNBQKBN? w Qkq - 0 1"
BadPieceFEN ==
    <<"r", "n", "b", "q", "k", "b", "n", "r", "/", "p", "p", "p", "p", "p", "p", "p", "p",
      "/", "8", "/", "8", "/", "8", "/", "8", "/", "P", "P", "P", "P", "P", "P", "P", "P",
      "/", "R", "N", "B", "Q", "K", "B", "N", "?", " ", "w", " ", "Q", "k", "q", " ", "-",
      " ", "0", " ", "1">>
\* "8/8/4k3/8/8/3K4/8/8 b - - abc 80"
BadClockFEN ==
    <<"8", "/", "8", "/", "4", "k", "3", "/", "8", "/", "8", "/", "3", "K", "4", "/", "8",
      "/", "8", " ", "b", " ", "-", " ", "-", " ", "a", "b", "c", " ", "8", "0">>

ValidFens == {StartFEN, KiwipeteFEN, EnPassantFEN, EndgameFEN, TestFEN}
InvalidFens == {NoFieldsFEN, BadSideFEN, BadPieceFEN, BadClockFEN}

FenSquares == 0 .. 63
EmptySquare == " "
\* PieceToChar without its blanks
PieceChars == {"P", "N", "B", "R", "Q", "K", "p", "n", "b", "r", "q", "k"}
DigitChars == <<"0", "1", "2", "3", "4", "5", "6", "7", "8", "9">>
FileChars == <<"a", "b", "c", "d", "e", "f", "g", "h">>
UpperFileChars == <<"A", "B", "C", "D", "E", "F", "G", "H">>

IndexIn(seq, c) == IF \E i \in 1 .. Len(seq) : seq[i] = c
                   THEN CHOOSE i \in 1 .. Len(seq) : seq[i] = c
                   ELSE 0
isdigit(c) == IndexIn(DigitChars, c) > 0
DigitValue(c) == IndexIn(DigitChars, c) - 1
islower(c) == c \in {"p", "n", "b", "r", "q", "k"} \/ IndexIn(FileChars, c) > 0
PieceColor(pc) == IF pc \in {"p", "n", "b", "r", "q", "k"} THEN BLACK ELSE WHITE

make_square(f, r) == 8 * r + f
file_of(s) == s % 8
rank_of(s) == s \div 8
\* relative_square(c, s) = s ^ (c * 56), relative_rank(c, r) = r ^ (c * 7)
relative_square(c, s) == IF c = WHITE THEN s ELSE make_square(file_of(s), 7 - rank_of(s))
relative_rank(c, r) == IF c = WHITE THEN r ELSE 7 - r
pawn_push(c) == IF c = WHITE THEN 8 ELSE -8

\* std::memset(this, 0, sizeof(Position)) and std::memset(si, 0, sizeof(StateInfo))
ZeroPosition ==
    [board |-> [s \in FenSquares |-> EmptySquare],
     sideToMove |-> WHITE,
     castlingRights |-> {},
     castlingRookSquare |-> [cr \in {"WHITE_OO", "WHITE_OOO", "BLACK_OO", "BLACK_OOO"} |-> 0],
     epSquare |-> 0,
     rule50 |-> 0,
     gamePly |-> 0,
     chess960 |-> FALSE]

\* std::istringstream ss(fenStr): the characters, the read position, the failbit
FenStream(fenStr) == [s |-> fenStr, pos |-> 1, fail |-> FALSE]
\* ss >> token with noskipws: the stream after the extraction
GetChar(ss) ==
    IF ss.fail \/ ss.pos > Len(ss.s) THEN [ss EXCEPT !.fail = TRUE]
    ELSE [ss EXCEPT !.pos = @ + 1]
\* the character the extraction delivers when it succeeds
PeekChar(ss) == ss.s[ss.pos]
CanGet(ss) == ~ss.fail /\ ss.pos <= Len(ss.s)

\* Position::set, 1. Piece placement: what one token adds to sq
PlacementStep(token) ==
    IF isdigit(token) THEN DigitValue(token)
    ELSE IF token = "/" THEN -16
    ELSE IF token \in PieceChars THEN 1
    ELSE 0

\* The loop over the tokens str[lo .. hi], entered with the square sq, computed by
\* halves: the pieces put (a later put_piece on a square replaces an earlier one) and
\* the square the loop is left with
RECURSIVE PlacementLoop(_, _, _, _)
PlacementLoop(str, lo, hi, sq) ==
    IF lo > hi THEN [put |-> <<>>, sq |-> sq]
    ELSE IF lo = hi
    THEN [put |-> IF str[lo] \in PieceChars THEN sq :> str[lo] ELSE <<>>,
          sq |-> sq + PlacementStep(str[lo])]
    ELSE With(PlacementLoop(str, lo, (lo + hi) \div 2, sq), LAMBDA l :
           With(PlacementLoop(str, ((lo + hi) \div 2) + 1, hi, l.sq), LAMBDA r :
               [put |-> r.put @@ l.put, sq |-> r.sq]))

\* Position::set, 1. Piece placement: the loop runs up to the first blank or the end of
\* the string.  token is the last character extracted; the strings of the model keep
\* sq on the board
ParsePlacement(ss, board) ==
    \* the index of the first blank, or the length of the string plus one
    With(IF \E i \in 1 .. Len(ss.s) : ss.s[i] = " "
         THEN CHOOSE i \in 1 .. Len(ss.s) :
                  ss.s[i] = " " /\ \A j \in 1 .. (i - 1) : ss.s[j] # " "
         ELSE Len(ss.s) + 1, LAMBDA end :
      With(PlacementLoop(ss.s, 1, end - 1, 56).put, LAMBDA put :
        [ss |-> [ss EXCEPT !.pos = IF end <= Len(ss.s) THEN end + 1 ELSE end,
                           !.fail = end > Len(ss.s)],
         board |-> [sq \in FenSquares |-> IF sq \in DOMAIN put THEN put[sq] ELSE board[sq]],
         token |-> IF end <= Len(ss.s) THEN " " ELSE ss.s[Len(ss.s)]]))

\* square<KING>(c): the lowest square holding the king of colour c
KingSquareOf(board, c) ==
    CHOOSE s \in FenSquares :
        /\ board[s] = (IF c = WHITE THEN "K" ELSE "k")
        /\ \A t \in FenSquares : board[t] = board[s] => s <= t

\* the loops for (rsq = ...; piece_on(rsq) != rook; rsq += step) {}
RECURSIVE FindRook(_, _, _, _)
FindRook(board, rsq, step, rook) ==
    IF board[rsq] = rook THEN rsq ELSE FindRook(board, rsq + step, step, rook)

\* Position::set_castling_right
set_castling_right(pos, c, rfrom) ==
    LET kfrom == KingSquareOf(pos.board, c)
        cr == IF c = WHITE
              THEN (IF kfrom < rfrom THEN "WHITE_OO" ELSE "WHITE_OOO")
              ELSE (IF kfrom < rfrom THEN "BLACK_OO" ELSE "BLACK_OOO")
    IN  [pos EXCEPT !.castlingRights = @ \cup {cr}, !.castlingRookSquare[cr] = rfrom]

\* Position::set, 3. Castling availability: the body of the loop for one token
CastlingToken(pos, token) ==
    LET c == IF islower(token) THEN BLACK ELSE WHITE
        rook == IF c = WHITE THEN "R" ELSE "r"
        upper == IF IndexIn(FileChars, token) > 0 THEN UpperFileChars[IndexIn(FileChars, token)]
                 ELSE IF token = "k" THEN "K" ELSE IF token = "q" THEN "Q" ELSE token
    IN  IF upper = "K"
        THEN set_castling_right(pos, c, FindRook(pos.board, relative_square(c, 7), -1, rook))
        ELSE IF upper = "Q"
        THEN set_castling_right(pos, c, FindRook(pos.board, relative_square(c, 0), 1, rook))
        ELSE IF IndexIn(UpperFileChars, upper) > 0
        THEN set_castling_right(pos, c, make_square(IndexIn(UpperFileChars, upper) - 1,
                                                    relative_rank(c, 0)))
        ELSE pos

RECURSIVE ParseCastling(_, _)
ParseCastling(ss, pos) ==
    IF ~CanGet(ss) \/ PeekChar(ss) = " " THEN [ss |-> GetChar(ss), pos |-> pos]
    ELSE ParseCastling(GetChar(ss), CastlingToken(pos, PeekChar(ss)))

\* pawn_attacks_bb(c, s): the squares a pawn of colour c on s attacks
pawn_attacks_bb(c, s) ==
    { t \in FenSquares : /\ rank_of(t) = rank_of(s) + (IF c = WHITE THEN 1 ELSE -1)
                         /\ file_of(t) \in {file_of(s) - 1, file_of(s) + 1} }
PawnOf(c) == IF c = WHITE THEN "P" ELSE "p"
Opposite(c) == IF c = WHITE THEN BLACK ELSE WHITE

\* Position::set, 4. En passant square: the condition under which it is kept
EnPassantKept(pos, ep) ==
    LET us == pos.sideToMove
        them == Opposite(us)
    IN  /\ \E t \in pawn_attacks_bb(them, ep) : pos.board[t] = PawnOf(us)
        /\ pos.board[ep + pawn_push(them)] = PawnOf(them)
        /\ pos.board[ep] = EmptySquare
        /\ pos.board[ep + pawn_push(us)] = EmptySquare

\* Position::set, 4.: col and row are extracted, row only if col is a file letter
ParseEnPassant(ss, pos) ==
    IF ~(CanGet(ss) /\ IndexIn(FileChars, PeekChar(ss)) > 0)
    THEN [ss |-> GetChar(ss), pos |-> [pos EXCEPT !.epSquare = 64]]
    ELSE IF ~(/\ CanGet(GetChar(ss))
              /\ PeekChar(GetChar(ss)) = (IF pos.sideToMove = WHITE THEN "6" ELSE "3"))
    THEN [ss |-> GetChar(GetChar(ss)), pos |-> [pos EXCEPT !.epSquare = 64]]
    ELSE [ss |-> GetChar(GetChar(ss)),
          pos |-> [pos EXCEPT !.epSquare =
                     IF EnPassantKept(pos, make_square(IndexIn(FileChars, PeekChar(ss)) - 1,
                                                       DigitValue(PeekChar(GetChar(ss))) - 1))
                     THEN make_square(IndexIn(FileChars, PeekChar(ss)) - 1,
                                      DigitValue(PeekChar(GetChar(ss))) - 1)
                     ELSE 64]]

\* operator>>(int&) with skipws: blanks are skipped, then an optional sign and digits
RECURSIVE SkipBlanks(_)
SkipBlanks(ss) == IF CanGet(ss) /\ PeekChar(ss) = " " THEN SkipBlanks(GetChar(ss)) ELSE ss
RECURSIVE ReadDigits(_, _, _)
ReadDigits(ss, val, n) ==
    IF CanGet(ss) /\ isdigit(PeekChar(ss))
    THEN ReadDigits(GetChar(ss), 10 * val + DigitValue(PeekChar(ss)), n + 1)
    ELSE [ss |-> ss, val |-> val, n |-> n]
\* the value is old when the stream has failed before, 0 when no number is found
ReadInt(ss, old) ==
    IF ss.fail THEN [ss |-> ss, val |-> old]
    ELSE LET s1 == SkipBlanks(ss)
             neg == CanGet(s1) /\ PeekChar(s1) = "-"
             d == ReadDigits(IF neg THEN GetChar(s1) ELSE s1, 0, 0)
         IN  IF d.n = 0 THEN [ss |-> [d.ss EXCEPT !.fail = TRUE], val |-> 0]
             ELSE [ss |-> d.ss, val |-> IF neg THEN -d.val ELSE d.val]

\* Seeded fault: the Position and the StateInfo are not zeroed before parsing
KeptPosition(pos) == pos

\* Position::set: the two memsets
ClearedPosition(pos) == ZeroPosition

\* Position::set, 2. Active colour, after the placement: two extractions
ParseSide(p) ==
    LET token == IF CanGet(p.ss) THEN PeekChar(p.ss) ELSE p.token
    IN  [ss |-> GetChar(GetChar(p.ss)), sideToMove |-> IF token = "w" THEN WHITE ELSE BLACK]

\* Position::set, 5-6. Halfmove clock and fullmove number
ParseClocks(ss, pos) ==
    LET r50 == ReadInt(ss, pos.rule50)
        ply == ReadInt(r50.ss, pos.gamePly)
        twice == 2 * (ply.val - 1)
    IN  [pos EXCEPT !.rule50 = r50.val,
                    !.gamePly = (IF twice > 0 THEN twice ELSE 0)
                                  + (IF pos.sideToMove = BLACK THEN 1 ELSE 0)]

\* Position::set(fenStr, isChess960, si) called on the Position pos
position_set(pos, fenStr, isChess960) ==
    LET start == ClearedPosition(pos)
        pl == ParsePlacement(FenStream(fenStr), start.board)
        sd == ParseSide(pl)
        p2 == [start EXCEPT !.board = pl.board, !.sideToMove = sd.sideToMove]
        ca == ParseCastling(sd.ss, p2)
        ep == ParseEnPassant(ca.ss, ca.pos)
    IN  [ParseClocks(ep.ss, ep.pos) EXCEPT !.chess960 = isChess960]

\* Position::fen: the inner loops for rank r from file f on
RECURSIVE FenRank(_, _, _, _)
FenRank(board, r, f, emptyCnt) ==
    IF f <= 7 /\ board[make_square(f, r)] = EmptySquare
    THEN FenRank(board, r, f + 1, emptyCnt + 1)
    ELSE (IF emptyCnt > 0 THEN <<DigitChars[emptyCnt + 1]>> ELSE <<>>)
           \o (IF f <= 7
               THEN <<board[make_square(f, r)]>> \o FenRank(board, r, f + 1, 0)
               ELSE <<>>)

RECURSIVE FenRanks(_, _)
FenRanks(board, r) ==
    FenRank(board, r, 0, 0) \o (IF r > 0 THEN <<"/">> \o FenRanks(board, r - 1) ELSE <<>>)

\* Position::fen: the castling letter of the right cr, if the side can castle
FenCastling(pos, cr, letter, base) ==
    IF cr \in pos.castlingRights
    THEN <<IF pos.chess960 THEN base[file_of(pos.castlingRookSquare[cr]) + 1] ELSE letter>>
    ELSE <<>>

\* Position::fen
position_fen(pos) ==
    FenRanks(pos.board, 7)
      \o (IF pos.sideToMove = WHITE THEN <<" ", "w", " ">> ELSE <<" ", "b", " ">>)
      \o FenCastling(pos, "WHITE_OO", "K", UpperFileChars)
      \o FenCastling(pos, "WHITE_OOO", "Q", UpperFileChars)
      \o FenCastling(pos, "BLACK_OO", "k", FileChars)
      \o FenCastling(pos, "BLACK_OOO", "q", FileChars)
      \o (IF pos.castlingRights = {} THEN <<"-">> ELSE <<>>)

NoFenCall == [op |-> "none"]

FenInit ==
    /\ fenPos = position_set(ZeroPosition, StartFEN, FALSE)
    /\ fenLast = NoFenCall

\* pos.set(fenStr, isChess960, si): it returns *this, there is no error to return
FenSet(fenStr, isChess960) ==
    /\ fenPos' = position_set(fenPos, fenStr, isChess960)
    /\ fenLast' = [op |-> "set", fenStr |-> fenStr, before |-> fenPos, error |-> FALSE]

\* pos.fen()
FenFen ==
    /\ fenLast.op = "set"
    /\ fenLast' = [op |-> "fen", fenStr |-> fenLast.fenStr, out |-> position_fen(fenPos)]
    /\ UNCHANGED fenPos


(***************************************************************************)
(* UCI options (src/src/ucioption.cpp).  An Option holds a variant value   *)
(* and an optional on_change handler; OptionsMap::setoption assigns the    *)
(* value string to the named option.  Strings are kept as strings; the     *)
(* two conversions the code applies to them (std::tolower in the           *)
(* comparator, std::stoi in the spin case) are tables over the strings     *)
(* the specification feeds in.                                             *)
(***************************************************************************)
OptionNames == {"Hash", "Ponder", "Style", "Clear Hash", "SyzygyPath"}

SetoptionNames == OptionNames \cup {"hash", "Threads"}

SetoptionValues == {"true", "false", "yes", "0", "1", "3", "4", "Solid", "risky", "var", "<empty>"}

\* std::tolower applied to every character of a string
ToLower(s) ==
    CASE s = "Hash"       -> "hash"
      [] s = "Ponder"     -> "ponder"
      [] s = "Style"      -> "style"
      [] s = "Clear Hash" -> "clear hash"
      [] s = "SyzygyPath" -> "syzygypath"
      [] s = "Threads"    -> "threads"
      [] s = "Solid"      -> "solid"
      [] s = "Normal"     -> "normal"
      [] s = "Risky"      -> "risky"
      [] OTHER            -> s

\* CaseInsensitiveLess orders by the lower-cased characters: two strings are
\* the same key when neither is less than the other.
SameKey(s1, s2) == ToLower(s1) = ToLower(s2)

\* std::stoi: the integer a string starts with, or std::invalid_argument
StoiThrows(v) == v \notin {"0", "1", "3", "4"}

stoi(v) ==
    CASE v = "0" -> 0
      [] v = "1" -> 1
      [] v = "3" -> 3
      [] v = "4" -> 4

CheckOption(value, f) == [type |-> "check", value |-> value, on_change |-> f]

SpinOption(value, min, max, f) ==
    [type |-> "spin", value |-> value, min |-> min, max |-> max, on_change |-> f]

ComboOption(value, defaultValue, f) ==
    [type |-> "combo", value |-> value, defaultValue |-> defaultValue, on_change |-> f]

StringOption(value, f) == [type |-> "string", value |-> value, on_change |-> f]

ButtonOption(f) == [type |-> "button", on_change |-> f]

\* The options the engine registers; on_change tells whether a handler is set.
OptionsStore ==
    [name \in OptionNames |->
        CASE name = "Hash"       -> SpinOption(1, 1, 3, TRUE)
          [] name = "Ponder"     -> CheckOption(FALSE, FALSE)
          [] name = "Style"      -> ComboOption("Normal",
                                      <<"Normal", "var", "Solid", "var", "Normal", "var", "Risky">>,
                                      TRUE)
          [] name = "Clear Hash" -> ButtonOption(TRUE)
          [] name = "SyzygyPath" -> StringOption("", TRUE)]

\* OptionsMap::count
options_count(map, name) == Cardinality({n \in DOMAIN map : SameKey(n, name)})

\* OptionsMap::operator[] on an existing key
OptionKey(map, name) == CHOOSE n \in DOMAIN map : SameKey(n, name)

\* The visitor of Option::operator=: the option after the visit.  A lambda
\* that returns early leaves the option as it is.
VisitOption(opt, v) ==
    CASE opt.type = "button" -> opt
      [] opt.type = "check" ->
            IF v # "true" /\ v # "false" THEN opt
            ELSE [opt EXCEPT !.value = (v = "true")]
      [] opt.type = "spin" ->
            IF stoi(v) < opt.min \/ stoi(v) > opt.max THEN opt
            ELSE [opt EXCEPT !.value = stoi(v)]
      [] opt.type = "combo" ->
            IF (~ \E i \in 1 .. Len(opt.defaultValue) : SameKey(opt.defaultValue[i], v)) \/ v = "var"
            THEN opt
            ELSE [opt EXCEPT !.value = v]
      [] opt.type = "string" ->
            [opt EXCEPT !.value = IF v = "<empty>" THEN "" ELSE v]

\* Option::operator=(const std::string&): the visit, then on_change whenever
\* a handler is set.  std::stoi throws out of the visit, before both.
option_assign(opt, v) ==
    IF opt.type = "spin" /\ StoiThrows(v)
    THEN [opt |-> opt, ran |-> FALSE, throw |-> TRUE]
    ELSE [opt   |-> VisitOption(opt, v),
          ran   |-> opt.on_change,
          throw |-> FALSE]

NoSetoption ==
    [op |-> "none", name |-> "", value |-> "", found |-> FALSE,
     before |-> OptionsStore, ran |-> FALSE, throw |-> FALSE]

OptInit ==
    /\ options_map = OptionsStore
    /\ optLast = NoSetoption

\* OptionsMap::setoption, after the name and the value have been read
Setoption(name, value) ==
    IF options_count(options_map, name) > 0
    THEN \E key \in {OptionKey(options_map, name)} :
         \E r \in {option_assign(options_map[key], value)} :
            /\ options_map' = [options_map EXCEPT ![key] = r.opt]
            /\ optLast' = [op |-> "setoption", name |-> name, value |-> value, found |-> TRUE,
                           before |-> options_map, ran |-> r.ran, throw |-> r.throw]
    ELSE /\ options_map' = options_map
         /\ optLast' = [op |-> "setoption", name |-> name, value |-> value, found |-> FALSE,
                        before |-> options_map, ran |-> FALSE, throw |-> FALSE]


(***************************************************************************)
(* Position::is_draw (src/src/position.cpp).  It reads three fields of the *)
(* current StateInfo (rule50, checkersBB, repetition) and the number of    *)
(* legal moves of the position.                                            *)
(***************************************************************************)
Rule50Values == {0, 98, 99, 100, 101}

\* StateInfo::repetition: 0 for no repetition, the distance to the previous
\* occurrence, negative when that occurrence was itself a repetition
RepetitionValues == {-4, -2, 0, 2, 4}

MaxDrawPly == 4

MaxLegal == 2

\* is_draw with the fifty-move test one ply early
is_draw_from_99(st, legal, ply) ==
    IF st.rule50 > 98 /\ (st.checkersBB = 0 \/ legal # 0)
    THEN TRUE
    ELSE st.repetition # 0 /\ st.repetition < ply

\* Position::is_draw(int ply); legal is MoveList<LEGAL>(*this).size()
is_draw(st, legal, ply) ==
    IF st.rule50 > 99 /\ (st.checkersBB = 0 \/ legal # 0)
    THEN TRUE
    ELSE st.repetition # 0 /\ st.repetition < ply

NoDrawCall == [op |-> "none", ply |-> 0, result |-> FALSE]

DrawInit ==
    /\ drawSt = [rule50 |-> 0, checkersBB |-> 0, repetition |-> 0, legal |-> MaxLegal]
    /\ drawLast = NoDrawCall

\* The search reaches a position with these StateInfo fields
DrawReach(rule50, checkersBB, repetition, legal) ==
    /\ drawSt' = [rule50 |-> rule50, checkersBB |-> checkersBB,
                  repetition |-> repetition, legal |-> legal]
    /\ drawLast' = NoDrawCall

DrawIsDraw(ply) ==
    /\ drawLast' = [op |-> "is_draw", ply |-> ply, result |-> is_draw(drawSt, drawSt.legal, ply)]
    /\ UNCHANGED drawSt


(***************************************************************************)
(* The age of an entry over many searches (src/src/tt.cpp): generation8    *)
(* is a uint8_t that new_search advances by GENERATION_DELTA for the life  *)
(* of the table, a write stamps the entry with the generation and the      *)
(* pv/bound bits, relative_age compares the two.                           *)
(***************************************************************************)
NoAge == [op |-> "none", age |-> 0]

AgeInit ==
    /\ ageGen = 0
    /\ ageEntry = ZeroData8
    /\ ageLast = NoAge

AgeNewSearch ==
    /\ ageGen' = new_search(ageGen)
    /\ ageLast' = NoAge
    /\ UNCHANGED ageEntry

\* A replacing TTWriter::write at the current generation
AgeWrite(pv, b) ==
    /\ ageEntry' = WriteNewData(ageEntry, 9, pv, b, -6, 4, ageGen)
    /\ ageLast' = NoAge
    /\ UNCHANGED ageGen

\* TTData8::relative_age(generation8) of the stored entry
AgeRelativeAge ==
    /\ ageLast' = [op |-> "relative_age", age |-> relative_age(ageEntry, ageGen)]
    /\ UNCHANGED <<ageGen, ageEntry>>


(***************************************************************************)
(* The history bonus and malus of a depth (src/src/history.cpp).           *)
(***************************************************************************)
\* The greatest depth handed to stat_bonus and stat_malus
MaxStatDepth == 60

\* stat_bonus with a floor of zero
stat_bonus_floored(d) == IF Min(253 * d - 356, 1117) < 0 THEN 0 ELSE Min(253 * d - 356, 1117)

\* stat_bonus(Depth d)
stat_bonus(d) == Min(253 * d - 356, 1117)

\* stat_malus(Depth d)
stat_malus(d) == Min(517 * d - 308, 1206)

BonusInit == sbLast = [op |-> "none", d |-> 0, value |-> 0]

StatBonus(d) == sbLast' = [op |-> "stat_bonus", d |-> d, value |-> stat_bonus(d)]

StatMalus(d) == sbLast' = [op |-> "stat_malus", d |-> d, value |-> stat_malus(d)]


(***************************************************************************)
(* update_continuation_histories (src/src/history.cpp).  Search::Stack     *)
(* (search.h) and Move (types.h) are not part of the sources at hand: a    *)
(* frame is its currentMove, which selects the continuation history table  *)
(* the frame points to; the frames below the root hold Move::none().       *)
(***************************************************************************)
\* The most plies on the stack, and the most updates made
MaxContPly == 6
MaxContUpdates == 1

ContMoves == {"null", "e2e4"}
ContBonuses == {-103, 1117}

\* The tables frames point to: table 0 for Move::none() and Move::null()
ContTables == 0 .. 1
ContTableOf(move) == IF move = "e2e4" THEN 1 ELSE 0

\* Move::is_ok
move_is_ok(move) == move # "none" /\ move # "null"

\* (ss - i)->currentMove
CurrentMoveAt(stack, i) == IF i <= Len(stack) THEN stack[Len(stack) - i + 1] ELSE "none"

\* The offsets of the loop, in its order
ContOffsets == <<1, 2, 3, 4, 6>>

\* The bonus of an offset with no quartering
ContBonusFull(bonus, i) == bonus

\* bonus / (1 + 3 * (i == 3))
ContBonus(bonus, i) == TruncDiv(bonus, 1 + 3 * B2I(i = 3))

\* The loop of update_continuation_histories from its k-th offset on
RECURSIVE ContLoop(_, _, _, _, _, _)
ContLoop(stack, inCheck, tables, bonus, k, log) ==
    IF k > Len(ContOffsets) THEN [tables |-> tables, log |-> log]
    ELSE IF inCheck /\ ContOffsets[k] > 2 THEN [tables |-> tables, log |-> log]
    ELSE IF move_is_ok(CurrentMoveAt(stack, ContOffsets[k]))
    THEN ContLoop(stack, inCheck,
                  [tables EXCEPT ![ContTableOf(CurrentMoveAt(stack, ContOffsets[k]))] =
                      StatsUpdate(@, ContBonus(bonus, ContOffsets[k]), 29952)],
                  bonus, k + 1,
                  Append(log, [offset |-> ContOffsets[k],
                               bonus |-> ContBonus(bonus, ContOffsets[k])]))
    ELSE ContLoop(stack, inCheck, tables, bonus, k + 1, log)

\* update_continuation_histories(ss, pc, to, bonus)
update_continuation_histories(stack, inCheck, tables, bonus) ==
    ContLoop(stack, inCheck, tables, bonus, 1, <<>>)

NoContUpdate ==
    [op |-> "none", inCheck |-> FALSE, bonus |-> 0, before |-> [t \in ContTables |-> 0],
     log |-> <<>>]

ContInit ==
    /\ chStack = <<>>
    /\ chTables = [t \in ContTables |-> 0]
    /\ chUpdates = 0
    /\ chLast = NoContUpdate

\* The search makes a move: the frame of the node records it
ContMake(move) ==
    /\ Len(chStack) < MaxContPly
    /\ chStack' = Append(chStack, move)
    /\ chLast' = NoContUpdate
    /\ UNCHANGED <<chTables, chUpdates>>

\* The search returns from a node
ContUnmake ==
    /\ Len(chStack) > 0
    /\ chStack' = SubSeq(chStack, 1, Len(chStack) - 1)
    /\ chLast' = NoContUpdate
    /\ UNCHANGED <<chTables, chUpdates>>

\* update_continuation_histories at the current node
ContUpdate(inCheck, bonus) ==
    /\ chUpdates < MaxContUpdates
    /\ \E r \in {update_continuation_histories(chStack, inCheck, chTables, bonus)} :
          /\ chTables' = r.tables
          /\ chLast' = [op |-> "update", inCheck |-> inCheck, bonus |-> bonus,
                        before |-> chTables, log |-> r.log]
    /\ chUpdates' = chUpdates + 1
    /\ UNCHANGED chStack


(***************************************************************************)
(* The cuckoo tables of Position::init (src/src/position.cpp).  The PRNG   *)
(* (misc.h), the piece and move encodings (types.h) and attacks_bb         *)
(* (bitboard.h) are not part of the sources at hand: the Zobrist keys are  *)
(* pseudo-random values drawn from a seed, of which H1 and H2 read bits    *)
(* 0..12 and 16..28.                                                       *)
(***************************************************************************)
CuckooSize == 8192
CuckooSeeds == 0 .. 7

\* Pieces, in the order of the loops: W_PAWN .. W_KING, B_PAWN .. B_KING
CuckooPieces == <<1, 2, 3, 4, 5, 6, 9, 10, 11, 12, 13, 14>>

\* type_of(pc): PAWN = 1, KNIGHT = 2, BISHOP = 3, ROOK = 4, QUEEN = 5, KING = 6
piece_type_of(pc) == pc % 8

\* file_of, rank_of and the distances of two squares 0 .. 63
FileDistance(s1, s2) == Abs((s1 % 8) - (s2 % 8))
RankDistance(s1, s2) == Abs((s1 \div 8) - (s2 \div 8))

\* attacks_bb(pt, s1, 0) & s2: a piece of type pt on s1 attacks s2 on an empty board
attacks_bb_empty(pt, s1, s2) ==
    /\ s1 # s2
    /\ CASE pt = 2 -> {FileDistance(s1, s2), RankDistance(s1, s2)} = {1, 2}
         [] pt = 3 -> FileDistance(s1, s2) = RankDistance(s1, s2)
         [] pt = 4 -> FileDistance(s1, s2) = 0 \/ RankDistance(s1, s2) = 0
         [] pt = 5 -> \/ FileDistance(s1, s2) = RankDistance(s1, s2)
                      \/ FileDistance(s1, s2) = 0 \/ RankDistance(s1, s2) = 0
         [] pt = 6 -> FileDistance(s1, s2) <= 1 /\ RankDistance(s1, s2) <= 1
         [] OTHER -> FALSE

\* Move(from, to)
MakeMove(from, to) == 64 * from + to

RECURSIVE PowMod(_, _, _)
PowMod(g, e, p) ==
    IF e = 0 THEN 1
    ELSE IF e % 2 = 0 THEN PowMod((g * g) % p, e \div 2, p)
    ELSE (g * PowMod(g, e - 1, p)) % p

\* rng.rand<Key>(), the n-th draw: the bits H1 and H2 read
ZobristDraw(seed, n) ==
    (PowMod(75, n + 1 + seed, 32749) % CuckooSize)
        + 65536 * (PowMod(79, n + 1 + seed, 32719) % CuckooSize)

RECURSIVE BitXor(_, _)
BitXor(a, b) ==
    IF a = 0 THEN b
    ELSE IF b = 0 THEN a
    ELSE ((a + b) % 2) + 2 * BitXor(a \div 2, b \div 2)

\* Zobrist::psq[pc][s] of the k-th piece, and Zobrist::side, drawn after the
\* 8 en passant and the 16 castling keys
ZobristPsq(seed, k, s) == ZobristDraw(seed, 64 * (k - 1) + s)
ZobristSide(seed) == ZobristDraw(seed, 64 * Len(CuckooPieces) + 8 + 16)

\* H1 and H2: h & 0x1fff and (h >> 16) & 0x1fff
H1(h) == h % 8192
H2(h) == (h \div 65536) % 8192

\* An insertion that overwrites slot i and drops what it held
CuckooPlaceOverwriting(t, key, move, i) ==
    [t EXCEPT !.keys[i] = key, !.moves[i] = move, !.count = @ + 1]

\* The while (true) loop: swap the pair in hand with slot i until an empty
\* slot is met, pushing every victim to its alternative slot
RECURSIVE CuckooPlace(_, _, _, _)
CuckooPlace(t, key, move, i) ==
    IF t.moves[i] = MOVE_NONE
    THEN [t EXCEPT !.keys[i] = key, !.moves[i] = move, !.count = @ + 1]
    ELSE CHOOSE r \in {CuckooPlace(a[1], a[2], a[3], a[4]) :
                          a \in {<<[t EXCEPT !.keys[i] = key, !.moves[i] = move],
                                   t.keys[i], t.moves[i],
                                   IF i = H1(t.keys[i]) THEN H2(t.keys[i]) ELSE H1(t.keys[i])>>}} : TRUE

\* Key key = Zobrist::psq[pc][s1] ^ Zobrist::psq[pc][s2] ^ Zobrist::side
CuckooKey(seed, k, s1, s2) ==
    BitXor(BitXor(ZobristPsq(seed, k, s1), ZobristPsq(seed, k, s2)), ZobristSide(seed))

\* The body of the loops for the k-th piece, s1 and s2
CuckooInsert(t, seed, k, s1, s2) ==
    IF piece_type_of(CuckooPieces[k]) # 1
          /\ attacks_bb_empty(piece_type_of(CuckooPieces[k]), s1, s2)
    THEN CHOOSE r \in {CuckooPlace(t, key, MakeMove(s1, s2), H1(key)) :
                          key \in {CuckooKey(seed, k, s1, s2)}} : TRUE
    ELSE t

\* The loop over s2 from lo to hi for the k-th piece on s1, by halves
RECURSIVE CuckooRow(_, _, _, _, _, _)
CuckooRow(t, seed, k, s1, lo, hi) ==
    IF lo > hi THEN t
    ELSE IF lo = hi THEN CuckooInsert(t, seed, k, s1, lo)
    ELSE CHOOSE r \in {CuckooRow(u, seed, k, s1, (lo + hi) \div 2 + 1, hi) :
                          u \in {CuckooRow(t, seed, k, s1, lo, (lo + hi) \div 2)}} : TRUE

\* Before Position::init
CuckooInit ==
    /\ ckSeed = 0
    /\ cuckoo = <<>>
    /\ cuckooMove = <<>>
    /\ ckCount = 0
    /\ ckLoop = [phase |-> "start", k |-> 1]

\* Position::init up to the loops: the keys are drawn and the tables zeroed
CuckooPrepare(seed) ==
    /\ ckLoop.phase = "start"
    /\ ckSeed' = seed
    /\ cuckoo' = [i \in 0 .. (CuckooSize - 1) |-> 0]
    /\ cuckooMove' = [i \in 0 .. (CuckooSize - 1) |-> MOVE_NONE]
    /\ ckCount' = 0
    /\ ckLoop' = [phase |-> "loop", k |-> 1]

\* The rounds of the loop over s1 for the squares lo .. hi, by halves
RECURSIVE CuckooRows(_, _, _, _, _)
CuckooRows(t, seed, k, lo, hi) ==
    IF lo > hi THEN t
    ELSE IF lo = hi THEN CuckooRow(t, seed, k, lo, lo + 1, 63)
    ELSE CHOOSE r \in {CuckooRows(u, seed, k, (lo + hi) \div 2 + 1, hi) :
                          u \in {CuckooRows(t, seed, k, lo, (lo + hi) \div 2)}} : TRUE

\* One round of the loop over the pieces: every s1, and every s2 > s1, for
\* the k-th piece
CuckooPiece ==
    /\ ckLoop.phase = "loop"
    /\ \E r \in {CuckooRows([keys |-> cuckoo, moves |-> cuckooMove, count |-> ckCount],
                            ckSeed, ckLoop.k, 0, 63)} :
          /\ cuckoo' = r.keys
          /\ cuckooMove' = r.moves
          /\ ckCount' = r.count
    /\ ckLoop' = IF ckLoop.k < Len(CuckooPieces) THEN [ckLoop EXCEPT !.k = @ + 1]
                 ELSE [ckLoop EXCEPT !.phase = "done"]
    /\ UNCHANGED ckSeed


(***************************************************************************)
(* FeatureTransformer::transform (src/src/nnue/nnue_feature_transformer.h) *)
(* for the small network, whose accumulators have 128 entries              *)
(* (nnue_architecture.h, not part of the sources at hand).  A vec_t is a   *)
(* function from lanes to 16-bit values; the accumulators are taken as     *)
(* update_accumulator left them.                                           *)
(***************************************************************************)
TransformDimensions == 128

\* The builds of the output loop: the vector builds and the one without VECTOR
TransformBuilds == {"USE_AVX512", "USE_AVX2", "USE_SSE2", "scalar"}

\* 16-bit lanes of a vec_t
VecLanes(build) ==
    CASE build = "USE_AVX512" -> 32 [] build = "USE_AVX2" -> 16 [] OTHER -> 8

\* MaxChunkSize
MaxChunkSize(build) == 2 * VecLanes(build)

\* reinterpret_cast<const vec_t*>(&accumulation[c][start])[n]
VecAt(row, start, n, lanes) == [l \in 0 .. (lanes - 1) |-> row[start + n * lanes + l]]

vec_set_16(x, lanes) == [l \in 0 .. (lanes - 1) |-> x]
vec_min_16(a, b) == [l \in DOMAIN a |-> IF a[l] < b[l] THEN a[l] ELSE b[l]]
vec_max_16(a, b) == [l \in DOMAIN a |-> IF a[l] > b[l] THEN a[l] ELSE b[l]]
\* mullo: the low 16 bits of the products
vec_mul_16(a, b) == [l \in DOMAIN a |-> ToI16(a[l] * b[l])]

\* srli_epi16(x, 7) and the signed saturation of packs_epi16
SrlEpi16(x) == ToU16(x) \div 128
SaturateI8(x) == IF x > 127 THEN 127 ELSE IF x < -128 THEN -128 ELSE x

\* A pack that keeps the lanes of a before those of b in every build
vec_msb_pack_16_in_order(a, b, lanes) ==
    [e \in 0 .. (2 * lanes - 1) |->
        IF e < lanes THEN SaturateI8(SrlEpi16(a[e])) ELSE SaturateI8(SrlEpi16(b[e - lanes]))]

\* vec_msb_pack_16(a, b): packs_epi16 works on each 128-bit block of its
\* operands, eight lanes of a then eight lanes of b
vec_msb_pack_16(a, b, lanes) ==
    [e \in 0 .. (2 * lanes - 1) |->
        IF e % 16 < 8
        THEN SaturateI8(SrlEpi16(a[8 * (e \div 16) + (e % 16)]))
        ELSE SaturateI8(SrlEpi16(b[8 * (e \div 16) + (e % 16) - 8]))]

\* out[j] of the vector loop
TransformChunk(row, j, lanes) ==
    vec_msb_pack_16(
        vec_mul_16(vec_max_16(vec_min_16(VecAt(row, 0, 2 * j, lanes), vec_set_16(127, lanes)),
                              vec_set_16(0, lanes)),
                   vec_max_16(vec_min_16(VecAt(row, TransformDimensions \div 2, 2 * j, lanes),
                                         vec_set_16(127, lanes)),
                              vec_set_16(0, lanes))),
        vec_mul_16(vec_max_16(vec_min_16(VecAt(row, 0, 2 * j + 1, lanes), vec_set_16(127, lanes)),
                              vec_set_16(0, lanes)),
                   vec_max_16(vec_min_16(VecAt(row, TransformDimensions \div 2, 2 * j + 1, lanes),
                                         vec_set_16(127, lanes)),
                              vec_set_16(0, lanes))),
        lanes)

\* std::clamp<BiasType>(x, 0, 127)
clamp_0_127(x) == IF x < 0 THEN 0 ELSE IF x > 127 THEN 127 ELSE x

\* The loop over j for one perspective: output[offset + j], j < HalfDimensions / 2
TransformHalf(row, build) ==
    IF build = "scalar"
    THEN [j \in 0 .. (TransformDimensions \div 2 - 1) |->
            (clamp_0_127(row[j]) * clamp_0_127(row[j + TransformDimensions \div 2])) \div 128]
    ELSE [j \in 0 .. (TransformDimensions \div 2 - 1) |->
            TransformChunk(row, j \div MaxChunkSize(build), VecLanes(build))
                [j % MaxChunkSize(build)]]

\* transform(pos, cache, output, bucket, psqtOnly = false): the output of
\* perspective p, side to move first, at output[(HalfDimensions / 2) * p ..]
transform(acc, stm, build) ==
    [p \in 0 .. 1 |-> TransformHalf(acc[IF p = 0 THEN stm ELSE Opposite(stm)], build)]

\* The accumulators the model explores: entry i of perspective c
TransformSlopes == {7, 61}
TransformShifts == 0 .. 6
AccumulatorEntry(slope, shift, c, i) == ((slope * i + 37 * shift + 113 * c) % 331) - 100

NoTransform == [op |-> "none"]

\* Before the first position: no accumulator has been written
TransformInit ==
    /\ trAcc = <<>>
    /\ trLast = NoTransform

\* The accumulators of a new position
TransformPosition(slope, shift) ==
    /\ trAcc' = [c \in Colors |->
                   [i \in 0 .. (TransformDimensions - 1) |-> AccumulatorEntry(slope, shift, c, i)]]
    /\ trLast' = NoTransform

\* transform on the accumulators of the current position
Transform(stm, build) ==
    /\ DOMAIN trAcc # {}
    /\ trLast' = [op |-> "transform", stm |-> stm, build |-> build,
                  output |-> transform(trAcc, stm, build)]
    /\ UNCHANGED trAcc


(***************************************************************************)
(* The memory of the transposition table (src/src/memory.cpp, tt.cpp,      *)
(* tt.h).  A pointer is the number of a block, 0 for nullptr.  assert      *)
(* aborts the process in a build with assertions and is nothing in a       *)
(* build with NDEBUG; a read through an invalid pointer is undefined       *)
(* behaviour, which ends the process or corrupts the heap.                 *)
(***************************************************************************)
\* The most blocks handed out
MaxAllocs == 6

PTR_OFFSET_SZ == 8

MemBuilds == {"windows", "posix", "posix_ndebug"}
MemSizes == {1, 2, 16}

\* alignment of aligned_large_pages_alloc outside Windows: 2 MB on Linux, else 4096
MemAlignments(build) == {2 * 1024 * 1024, 4096}

\* std_aligned_free(ptr)
std_aligned_free(build, heap, ptr) ==
    IF ptr = 0
    THEN IF build = "posix"
         THEN {[proc |-> "assertion failed", heap |-> heap]}
         ELSE {[proc |-> "invalid read", heap |-> heap],
               [proc |-> "heap corrupted", heap |-> heap]}
    ELSE {[proc |-> "running", heap |-> [b \in (DOMAIN heap) \ {ptr} |-> heap[b]]]}

\* aligned_large_pages_free(mem)
aligned_large_pages_free(build, heap, mem) ==
    IF build = "windows"
    THEN IF mem # 0
         THEN {[proc |-> "running", heap |-> [b \in (DOMAIN heap) \ {mem} |-> heap[b]]]}
         ELSE {[proc |-> "running", heap |-> heap]}
    ELSE std_aligned_free(build, heap, mem)

\* std_aligned_alloc(align, size): malloc may fail
std_aligned_alloc(build, heap, next, align, size) ==
    IF build = "posix" /\ ~(align < PTR_OFFSET_SZ)
    THEN {[proc |-> "assertion failed", heap |-> heap, ptr |-> 0]}
    ELSE IF align # 0 /\ size # 0
    THEN {[proc |-> "running", heap |-> heap, ptr |-> 0],
          [proc |-> "running", heap |-> [b \in (DOMAIN heap) \cup {next} |->
                                            IF b = next THEN size ELSE heap[b]],
           ptr |-> next]}
    ELSE {[proc |-> "running", heap |-> heap, ptr |-> 0]}

\* aligned_large_pages_alloc(allocSize): VirtualAlloc on Windows
aligned_large_pages_alloc(build, heap, next, size) ==
    IF build = "windows"
    THEN {[proc |-> "running", heap |-> heap, ptr |-> 0],
          [proc |-> "running", heap |-> [b \in (DOMAIN heap) \cup {next} |->
                                            IF b = next THEN size ELSE heap[b]],
           ptr |-> next]}
    ELSE UNION {std_aligned_alloc(build, heap, next, align, size) : align \in MemAlignments(build)}

\* TranspositionTable::resize(mbSize, threads) up to clear: the outcomes
resize(build, heap, next, tbl, mbSize) ==
    UNION {IF f.proc # "running"
           THEN {[proc |-> f.proc, heap |-> f.heap, table |-> tbl]}
           ELSE {[proc |-> IF a.proc = "running" /\ a.ptr = 0 THEN "exit failure" ELSE a.proc,
                  heap |-> a.heap, table |-> a.ptr] :
                    a \in aligned_large_pages_alloc(build, f.heap, next, mbSize)} :
             f \in aligned_large_pages_free(build, heap, tbl)}

MemInit ==
    /\ memBuild = "none"
    /\ memProc = "not started"
    /\ memTable = 0
    /\ memHeap = <<>>
    /\ memNext = 1
    /\ memLast = [op |-> "none"]

\* The program starts and constructs its TranspositionTable: table = nullptr
MemStart(build) ==
    /\ memProc = "not started"
    /\ memBuild' = build
    /\ memProc' = "running"
    /\ memLast' = [op |-> "start"]
    /\ UNCHANGED <<memTable, memHeap, memNext>>

\* TranspositionTable::resize(mbSize, threads)
MemResize(mbSize) ==
    /\ memProc = "running"
    /\ memNext <= MaxAllocs
    /\ \E r \in resize(memBuild, memHeap, memNext, memTable, mbSize) :
          /\ memProc' = r.proc
          /\ memHeap' = r.heap
          /\ memTable' = r.table
          /\ memLast' = [op |-> "resize", freed |-> memTable, heap |-> memHeap]
    /\ memNext' = memNext + 1
    /\ UNCHANGED memBuild

\* ~TranspositionTable(), and a new table constructed in its place
MemDestroy ==
    /\ memProc = "running"
    /\ \E f \in aligned_large_pages_free(memBuild, memHeap, memTable) :
          /\ memProc' = f.proc
          /\ memHeap' = f.heap
          /\ memLast' = [op |-> "destroy", freed |-> memTable, heap |-> memHeap]
    /\ memTable' = 0
    /\ UNCHANGED <<memBuild, memNext>>


(***************************************************************************)
(* TranspositionTable::clear run by the worker threads: src/src/tt.cpp.    *)
(*                                                                         *)
(* ThreadPool::run_on_thread and wait_on_thread are not part of the        *)
(* sources at hand; from the specification, run_on_thread(i, job) hands    *)
(* the job to worker i, which runs it on its own, and wait_on_thread(i)    *)
(* blocks the caller until worker i has finished its job.  The workers     *)
(* zero one cluster per step.                                              *)
(***************************************************************************)
\* Bounds of the model: the largest table and the most workers
MaxClearClusters == 4
MaxClearThreads  == 3

ClearCounts  == 1 .. MaxClearClusters
ClearWorkers == 0 .. (MaxClearThreads - 1)
ClearIdx     == 0 .. (MaxClearClusters - 1)

\* A slice that runs from the worker's start to the end of the table
ClearRangeToEnd(i, threadCount, count) ==
    LET stride == count \div threadCount
        start  == stride * i
    IN  [start |-> start, len |-> count - start]

\* stride, start and len of the lambda clear hands to worker i
ClearRange(i, threadCount, count) ==
    LET stride == count \div threadCount
        start  == stride * i
        len    == IF i + 1 # threadCount THEN stride ELSE count - start
    IN  [start |-> start, len |-> len]

NoJob == [pc |-> "none", j |-> 0, end |-> 0]

ClearPartInit ==
    /\ cpClear = [pc |-> "idle", count |-> 1, threadCount |-> 1, i |-> 0, generation8 |-> 0]
    /\ cpJobs = [t \in ClearWorkers |-> NoJob]
    /\ cpTable = [j \in ClearIdx |-> "zero"]
    /\ cpZeroed = [j \in ClearIdx |-> <<>>]

\* clear(threads) is called on a table of count clusters that all hold data, with
\* threadCount workers: generation8 = 0
ClearPartStart(count, threadCount) ==
    /\ cpClear.pc \in {"idle", "returned"}
    /\ cpClear' = [pc |-> "run", count |-> count, threadCount |-> threadCount, i |-> 0,
                   generation8 |-> 0]
    /\ cpJobs' = [t \in ClearWorkers |-> NoJob]
    /\ cpTable' = [j \in ClearIdx |-> IF j < count THEN "data" ELSE "zero"]
    /\ cpZeroed' = [j \in ClearIdx |-> <<>>]

\* the first loop: threads.run_on_thread(i, lambda)
ClearPartRun ==
    /\ cpClear.pc = "run"
    /\ IF cpClear.i < cpClear.threadCount
       THEN LET r == ClearRange(cpClear.i, cpClear.threadCount, cpClear.count)
            IN  /\ cpJobs' = [cpJobs EXCEPT ![cpClear.i] =
                                 [pc |-> "zeroing", j |-> r.start, end |-> r.start + r.len]]
                /\ cpClear' = [cpClear EXCEPT !.i = @ + 1]
       ELSE /\ cpClear' = [cpClear EXCEPT !.pc = "wait", !.i = 0]
            /\ UNCHANGED cpJobs
    /\ UNCHANGED <<cpTable, cpZeroed>>

\* worker t: one round of for (j = start; j < start + len; ++j), storing 0 to the keys
\* and the data of cluster j, or the end of the lambda
ClearPartZero(t) ==
    /\ cpJobs[t].pc = "zeroing"
    /\ IF cpJobs[t].j < cpJobs[t].end
       THEN /\ cpTable' = [cpTable EXCEPT ![cpJobs[t].j] = "zero"]
            /\ cpZeroed' = [cpZeroed EXCEPT ![cpJobs[t].j] = Append(@, t)]
            /\ cpJobs' = [cpJobs EXCEPT ![t].j = @ + 1]
       ELSE /\ cpJobs' = [cpJobs EXCEPT ![t].pc = "done"]
            /\ UNCHANGED <<cpTable, cpZeroed>>
    /\ UNCHANGED cpClear

\* the second loop: threads.wait_on_thread(i) returns once worker i is done; after the
\* last one clear returns
ClearPartWait ==
    /\ cpClear.pc = "wait"
    /\ IF cpClear.i < cpClear.threadCount
       THEN /\ cpJobs[cpClear.i].pc = "done"
            /\ cpClear' = [cpClear EXCEPT !.i = @ + 1]
       ELSE cpClear' = [cpClear EXCEPT !.pc = "returned"]
    /\ UNCHANGED <<cpJobs, cpTable, cpZeroed>>


(***************************************************************************)
(* Engine::go, stop, search_clear and set_tt_size against the searching    *)
(* workers: src/src/engine.cpp.                                            *)
(*                                                                         *)
(* The thread pool's code is not part of the sources at hand; from the     *)
(* specification, start_thinking broadcasts start, the main worker starts  *)
(* the helpers, searches, and ends its search only after every helper has  *)
(* signalled completion, and wait_for_search_finished blocks on the main   *)
(* worker only.  Every worker probes and writes the table while it         *)
(* searches.                                                               *)
(***************************************************************************)
\* Bound of the model: the number of helper threads
MaxHelpers == 2

Workers == 0 .. MaxHelpers
Helpers == 1 .. MaxHelpers

\* A wait that returns whether or not the main worker is searching
wait_returns_at_once(workers) ==
    TRUE

\* Engine::wait_for_search_finished can return: the main worker is not searching
wait_for_search_finished(workers) ==
    workers[0] = "idle"

\* The calling thread is in none of the Engine's functions
EngineIdle == [op |-> "none", at |-> "idle"]

EngineInit ==
    /\ engPc = EngineIdle
    /\ engWorkers = [w \in Workers |-> "idle"]
    /\ engStop = FALSE
    /\ engTT = "ready"
    /\ engLast = [op |-> "none"]

\* Engine::go: start_thinking waits for the main worker, clears stop and wakes it
EngineGo ==
    /\ engPc = EngineIdle
    /\ wait_for_search_finished(engWorkers)
    /\ engWorkers' = [engWorkers EXCEPT ![0] = "start"]
    /\ engStop' = FALSE
    /\ UNCHANGED <<engPc, engTT, engLast>>

\* Engine::stop
EngineStop ==
    /\ engPc = EngineIdle
    /\ ~engStop
    /\ engStop' = TRUE
    /\ UNCHANGED <<engPc, engWorkers, engTT, engLast>>

\* the main worker begins its search: it starts the helpers
MainStartsHelpers ==
    /\ engWorkers[0] = "start"
    /\ engWorkers' = [w \in Workers |-> "search"]
    /\ UNCHANGED <<engPc, engStop, engTT, engLast>>

\* worker w probes or writes the table
WorkerAccess(w) ==
    /\ engWorkers[w] = "search"
    /\ engLast' = [op |-> "access", by |-> w, tt |-> engTT]
    /\ UNCHANGED <<engPc, engWorkers, engStop, engTT>>

\* helper w ends its search and signals completion
HelperFinishes(w) ==
    /\ engWorkers[w] = "search"
    /\ engWorkers' = [engWorkers EXCEPT ![w] = "idle"]
    /\ UNCHANGED <<engPc, engStop, engTT, engLast>>

\* the main worker ends its own search, sets stop and waits for the helpers
MainJoins ==
    /\ engWorkers[0] = "search"
    /\ engWorkers' = [engWorkers EXCEPT ![0] = "join"]
    /\ engStop' = TRUE
    /\ UNCHANGED <<engPc, engTT, engLast>>

\* every helper has signalled completion: the main worker is no longer searching
MainFinishes ==
    /\ engWorkers[0] = "join"
    /\ \A w \in Helpers : engWorkers[w] = "idle"
    /\ engWorkers' = [engWorkers EXCEPT ![0] = "idle"]
    /\ UNCHANGED <<engPc, engStop, engTT, engLast>>

\* Engine::search_clear and Engine::set_tt_size are called
EngineCall(op) ==
    /\ engPc = EngineIdle
    /\ engPc' = [op |-> op, at |-> "wait"]
    /\ UNCHANGED <<engWorkers, engStop, engTT, engLast>>

\* wait_for_search_finished() returns and tt.clear or tt.resize begins: clear zeroes the
\* storage, resize frees it first
EngineWaitReturns ==
    /\ engPc.at = "wait"
    /\ wait_for_search_finished(engWorkers)
    /\ engPc' = [engPc EXCEPT !.at = "tt"]
    /\ engTT' = IF engPc.op = "search_clear" THEN "zeroing" ELSE "freed"
    /\ UNCHANGED <<engWorkers, engStop, engLast>>

\* tt.resize allocates the new storage and clears it; tt.clear ends, and with it
\* search_clear or set_tt_size
EngineTTStep ==
    /\ engPc.at = "tt"
    /\ IF engTT = "freed"
       THEN engTT' = "zeroing" /\ UNCHANGED engPc
       ELSE engTT' = "ready" /\ engPc' = EngineIdle
    /\ UNCHANGED <<engWorkers, engStop, engLast>>


(***************************************************************************)
(* Registration and printing of options: src/src/ucioption.cpp.            *)
(*                                                                         *)
(* Option::operator<< gives every option it initialises the next value of  *)
(* the static counter insert_order; the printing operator<< walks idx from *)
(* 0 to size - 1 and lists the first option of the map with that idx.      *)
(* The combo case of Option::operator= registers the tokens of the default *)
(* value in a temporary OptionsMap.                                        *)
(***************************************************************************)
\* Bounds of the model: OptionsMap instances, and the values insert_order takes
MaxInstances   == 2
MaxInsertOrder == 5

RegInstances == 1 .. MaxInstances
RegNames == {"Hash", "Ponder", "Style"}

\* The position of a name in the map's order (CaseInsensitiveLess)
NameRank(name) ==
    CASE name = "Hash" -> 1
      [] name = "Ponder" -> 2
      [] name = "Style" -> 3

\* The tokens of the default value of the combo option Style
StyleDefault == <<"Normal", "var", "Solid">>

RegInit ==
    /\ insert_order = 0
    /\ regMaps = [inst \in RegInstances |-> <<>>]
    /\ regOrder = [inst \in RegInstances |-> <<>>]
    /\ regLast = [op |-> "none"]

\* options[name] << Option(...) on instance inst, for a name the map does not hold yet:
\* operator[] inserts the name, operator<< sets idx = insert_order++
RegisterOption(inst, name) ==
    /\ insert_order < MaxInsertOrder
    /\ name \notin DOMAIN regMaps[inst]
    /\ regMaps' = [regMaps EXCEPT ![inst] =
                      [n \in DOMAIN regMaps[inst] \cup {name} |->
                          IF n = name THEN insert_order ELSE regMaps[inst][n]]]
    /\ regOrder' = [regOrder EXCEPT ![inst] = Append(@, name)]
    /\ insert_order' = insert_order + 1
    /\ regLast' = [op |-> "register", inst |-> inst, name |-> name]

\* insert_order after the combo case of Option::operator= has run
\* comboMap[token] << Option() on every token of the default value
combo_insert_order(order, defaultValue) == order + Len(defaultValue)

\* setoption name Style value v on instance inst: the temporary comboMap
AssignCombo(inst) ==
    /\ "Style" \in DOMAIN regMaps[inst]
    /\ combo_insert_order(insert_order, StyleDefault) <= MaxInsertOrder
    /\ insert_order' = combo_insert_order(insert_order, StyleDefault)
    /\ regLast' = [op |-> "assign", inst |-> inst, name |-> "Style"]
    /\ UNCHANGED <<regMaps, regOrder>>

\* The names the printing operator<< lists from idx on
RECURSIVE PrintFrom(_, _)
PrintFrom(map, idx) ==
    IF idx >= Cardinality(DOMAIN map) THEN <<>>
    ELSE LET hits == {n \in DOMAIN map : map[n] = idx}
         IN  (IF hits = {} THEN <<>>
              ELSE <<CHOOSE n \in hits : \A o \in hits : NameRank(n) <= NameRank(o)>>)
             \o PrintFrom(map, idx + 1)

\* os << options of instance inst
PrintOptions(inst) ==
    /\ regLast' = [op |-> "print", inst |-> inst, out |-> PrintFrom(regMaps[inst], 0)]
    /\ UNCHANGED <<insert_order, regMaps, regOrder>>


(***************************************************************************)
(* The subsystems a specification leaves alone.                            *)
(***************************************************************************)
coreVars == <<ttVars, histVars, netVars, parseVars, accVars>>
InitCore == TTInit /\ HistInit /\ NetInit /\ ParseInit /\ AccInit
RestInit == StatesInit /\ FenInit /\ OptInit /\ DrawInit /\ AgeInit /\ BonusInit /\ ContInit /\ CuckooInit /\ TransformInit /\ MemInit /\ ClearPartInit /\ EngineInit /\ RegInit
ExtInit == SaveInitIn({"scalar"}) /\ RestInit


(***************************************************************************)
(* Specifications of the transposition table used by one thread.           *)
(* SpecTT: any sequence of probe, write (through the writer of the last    *)
(* probe, with the probed key), new_search and clear.                      *)
(* SpecTTWrite: one probe, then any sequence of writes through the writer  *)
(* it returned, with any key and any arguments, and new_search.            *)
(***************************************************************************)
InitTT == TTInit /\ HistInit /\ NetInit /\ ParseInit /\ AccInit /\ ExtInit

NextTT ==
    \/ /\ \E key \in Keys : Probe(key)
       /\ UNCHANGED <<histVars, netVars, parseVars, accVars, extVars>>
    \/ /\ ttProbe.op = "probe"
       /\ \E d \in WriteDepths, m \in WriteMoves :
               Write(ttProbe.key, 9, FALSE, BOUND_LOWER, d, m, 4)
       /\ UNCHANGED <<histVars, netVars, parseVars, accVars, extVars>>
    \/ /\ NewSearch
       /\ UNCHANGED <<histVars, netVars, parseVars, accVars, extVars>>
    \/ /\ \E n \in 1 .. 2 : Clear(n)
       /\ UNCHANGED <<histVars, netVars, parseVars, accVars, extVars>>

SpecTT == InitTT /\ [][NextTT]_vars

NextTTWrite ==
    \/ /\ ttWriter = <<>>
       /\ \E key \in Keys : Probe(key)
       /\ UNCHANGED <<histVars, netVars, parseVars, accVars, extVars>>
    \/ /\ \E k \in WriteKeys, v \in WriteValues, pv \in BOOLEAN, b \in WriteBounds,
            d \in WriteDepths, m \in WriteMoves, ev \in WriteEvals :
               Write(k, v, pv, b, d, m, ev)
       /\ UNCHANGED <<histVars, netVars, parseVars, accVars, extVars>>
    \/ /\ NewSearch
       /\ UNCHANGED <<histVars, netVars, parseVars, accVars, extVars>>

SpecTTWrite == InitTT /\ [][NextTTWrite]_vars

(***************************************************************************)
(* Properties of the transposition table.                                  *)
(***************************************************************************)
\* The entry the writer of the last probe is bound to
WriterEntry == table[ttWriter[1]][ttWriter[2]]

\* The replacement condition as the specification words it, on the entry
\* before the last write and the arguments of that write
SpecReplaceCondition ==
    LET a   == ttLast.args
        old == Unpack(ttLast.before.data)
    IN  \/ a.b = BOUND_EXACT
        \/ (a.k % 65536) # ttLast.before.key
        \/ a.d - DEPTH_ENTRY_OFFSET + 2 * B2I(a.pv) > old.depth8 - 4
        \/ relative_age(old, a.gen8) # 0

\* After the last write the entry holds the new key shard, depth, generation/pv/bound
\* byte, value and eval
WriteReplaced ==
    LET a   == ttLast.args
        new == Unpack(WriterEntry.data)
    IN  /\ WriterEntry.key = a.k % 65536
        /\ new.depth8 = a.d - DEPTH_ENTRY_OFFSET
        /\ new.genBound8 = a.gen8 + 4 * B2I(a.pv) + a.b
        /\ new.value16 = a.v
        /\ new.eval16 = a.ev

\* After the last write the entry holds the key shard, depth, generation/pv/bound
\* byte, value and eval it held before
WriteKept ==
    LET old == Unpack(ttLast.before.data)
        new == Unpack(WriterEntry.data)
    IN  /\ WriterEntry.key = ttLast.before.key
        /\ new.depth8 = old.depth8
        /\ new.genBound8 = old.genBound8
        /\ new.value16 = old.value16
        /\ new.eval16 = old.eval16

\* C2: TTWriter::write replaces the whole entry (key shard, depth, generation/pv/bound,
\* value, eval) exactly when the bound is Exact, or the low 16 key bits differ from the
\* stored shard, or d - DEPTH_ENTRY_OFFSET + 2*pv > depth8 - 4, or the stored entry's
\* relative age against the passed generation is non-zero; otherwise it keeps them.
C2_ReplaceExactlyWhen ==
    ttLast.op = "write" =>
        /\ SpecReplaceCondition <=> ttLast.storeKey
        /\ SpecReplaceCondition => WriteReplaced
        /\ ~SpecReplaceCondition => WriteKept

\* C2 witness: an Exact write replaced an entry of the same key and generation that was
\* too deep for the depth condition
C2_Witness ==
    /\ ttLast.op = "write"
    /\ ttLast.args.b = BOUND_EXACT
    /\ ttLast.args.k % 65536 = ttLast.before.key
    /\ ~(ttLast.args.d - DEPTH_ENTRY_OFFSET + 2 * B2I(ttLast.args.pv)
           > Unpack(ttLast.before.data).depth8 - 4)
    /\ relative_age(Unpack(ttLast.before.data), ttLast.args.gen8) = 0
    /\ Unpack(ttLast.before.data).depth8 # ttLast.args.d - DEPTH_ENTRY_OFFSET
    /\ WriteReplaced

\* C3 as stated: probe(key) returns found = TRUE whenever an entry of the cluster stores
\* the low 16 bits of key, with that entry's data and a writer bound to it.
C3_FoundWheneverShardMatches ==
    ttProbe.op = "probe" =>
        LET c == ClusterOf(ttProbe.key)
        IN  (\E i \in EntryIdx : table[c][i].key = ttProbe.key % 65536) =>
                /\ ttProbe.found
                /\ table[ttWriter[1]][ttWriter[2]].key = ttProbe.key % 65536

\* C3 amended: when an entry of the cluster stores the low 16 bits of key, probe(key)
\* returns the data of the first such entry and a writer bound to it, and found is
\* TRUE exactly when that entry is occupied (its depth8 is not zero).
C3_FoundWhenOccupiedShardMatches ==
    ttProbe.op = "probe" =>
        LET c == ClusterOf(ttProbe.key)
            hits == {i \in EntryIdx : table[c][i].key = ttProbe.key % 65536}
        IN  hits # {} =>
                LET i == CHOOSE h \in hits : \A g \in hits : h <= g
                    e == Unpack(table[c][i].data)
                IN  /\ ttWriter = <<c, i>>
                    /\ ttProbe.found <=> (e.depth8 # 0)
                    /\ ttProbe.data.move = e.move16
                    /\ ttProbe.data.value = e.value16
                    /\ ttProbe.data.eval = e.eval16
                    /\ ttProbe.data.depth = e.depth8 + DEPTH_ENTRY_OFFSET
                    /\ ttProbe.data.bound = e.genBound8 % 4
                    /\ ttProbe.data.is_pv <=> ((e.genBound8 \div 4) % 2 = 1)

\* C3 witness: a probe hit an occupied entry that is not the first of its cluster
C3_Witness ==
    /\ ttProbe.op = "probe"
    /\ ttProbe.found
    /\ ttWriter[2] > 0
    /\ WriterEntry.key = ttProbe.key % 65536
    /\ ttProbe.data.depth = Unpack(WriterEntry.data).depth8 + DEPTH_ENTRY_OFFSET

\* C4: write keeps the previous move16 when the new move is none and the key shard is
\* unchanged, and stores the new move otherwise; when the replacement condition fails
\* it changes nothing of the entry except move16, and stores nothing at all when the
\* move is none as well.
C4_MovePreserved ==
    ttLast.op = "write" =>
        LET a   == ttLast.args
            old == Unpack(ttLast.before.data)
            new == Unpack(WriterEntry.data)
        IN  /\ new.move16 = IF a.m = MOVE_NONE /\ a.k % 65536 = ttLast.before.key
                            THEN old.move16 ELSE a.m
            /\ ~SpecReplaceCondition => WriteKept
            /\ (~SpecReplaceCondition /\ a.m = MOVE_NONE) =>
                   /\ ~ttLast.storeKey /\ ~ttLast.storeData
                   /\ WriterEntry = ttLast.before

\* C4 witness: a write with no move that did not replace left a stored move in place
C4_Witness ==
    /\ ttLast.op = "write"
    /\ ~SpecReplaceCondition
    /\ ttLast.args.m = MOVE_NONE
    /\ Unpack(ttLast.before.data).move16 # MOVE_NONE
    /\ Unpack(WriterEntry.data).move16 = Unpack(ttLast.before.data).move16

\* C5: writing the same (key, depth, arguments) twice in succession through the same
\* writer leaves the key shard and payload after the second call identical to what
\* they were after the first.
C5_WriteIdempotent ==
    (ttLast.op = "write" /\ ttLast.again) => WriterEntry = ttLast.before

\* C5 witness: the second of two identical writes found an entry it did not replace
\* and stored the move again
C5_Witness ==
    /\ ttLast.op = "write"
    /\ ttLast.again
    /\ ~ttLast.storeKey
    /\ ttLast.storeData
    /\ WriterEntry = ttLast.before

(***************************************************************************)
(* Specification and properties of a history entry.                        *)
(***************************************************************************)
InitHist == TTInit /\ HistInit /\ NetInit /\ ParseInit /\ AccInit /\ ExtInit

NextHist ==
    \/ /\ \E D \in (IF hD = 0 THEN HistDs ELSE {hD}) :
               \E v \in HistFills(D) : HistFill(D, v)
       /\ UNCHANGED <<ttVars, netVars, parseVars, accVars, extVars>>
    \/ /\ \E bonus \in HistBonuses(hD) : HistUpdate(bonus)
       /\ UNCHANGED <<ttVars, netVars, parseVars, accVars, extVars>>

SpecHist == InitHist /\ [][NextHist]_vars

\* C7: for |entry| <= D and |bonus| <= D the update
\* entry <- entry + bonus - entry * |bonus| / D (truncating division) leaves |entry| <= D,
\* so both asserts of StatsEntry::operator<< hold.
C7_HistorySaturates ==
    /\ hD > 0 => Abs(hEntry) <= hD
    /\ hLast.op = "update" =>
          /\ hLast.assertBonus
          /\ hLast.assertEntry
          /\ LET p == hLast.before * Abs(hLast.bonus)
                 q == IF p >= 0 THEN p \div hD ELSE -((-p) \div hD)
             IN  hEntry = hLast.before + hLast.bonus - q

\* C7 witness: a full negative bonus on an entry already at -D leaves it at -D
C7_Witness ==
    /\ hLast.op = "update"
    /\ hD = 29952
    /\ hLast.before = -hD
    /\ hLast.bonus = -hD
    /\ hEntry = -hD

(***************************************************************************)
(* Specification and properties of the network loader.                     *)
(***************************************************************************)
InitNet == TTInit /\ HistInit /\ NetInit /\ ParseInit /\ AccInit /\ ExtInit

NextNet ==
    \/ /\ \E path \in LoadNames, embedded \in EmbeddedFiles, fCwd \in DiskFiles,
            fRoot \in DiskFiles : NetLoad(path, embedded, fCwd, fRoot)
       /\ UNCHANGED <<ttVars, histVars, parseVars, accVars, extVars>>
    \/ /\ \E path \in LoadNames : NetVerify(path)
       /\ UNCHANGED <<ttVars, histVars, parseVars, accVars, extVars>>

SpecNet == InitNet /\ [][NextNet]_vars

\* C8: after any sequence of Network::load calls, including one where every source
\* fails, evalFile.current names the network actually in memory: whenever verify(name)
\* passes, the parameters in memory are those parsed by a successful load of that file.
C8_CurrentNamesNetworkInMemory ==
    /\ evalFile.current # "None" =>
          /\ netGood[evalFile.current].loaded
          /\ netParams = netGood[evalFile.current].params
    /\ netLog.op = "verify" =>
          /\ netGood[netLog.name].loaded
          /\ netParams = netGood[netLog.name].params

\* The sources Network::load may open for a name, in order
EligibleDirs(name) ==
    IF name = DefaultName THEN <<InternalDir, CwdDir, RootDir>> ELSE <<CwdDir, RootDir>>

\* C9: load tries the embedded network (only if the name is the default name), the
\* working directory and the root directory, in this order; the first successful parse
\* wins and no later source is opened; no source is opened when the name is already
\* the current one.
C9_SourcesInOrderFirstWins ==
    netLog.op = "load" =>
        LET att == netLog.attempts
            el  == EligibleDirs(netLog.name)
        IN  /\ netLog.wasCurrent => att = <<>>
            /\ ~netLog.wasCurrent =>
                  /\ Len(att) >= 1 /\ Len(att) <= Len(el)
                  /\ \A i \in 1 .. Len(att) : att[i].dir = el[i]
                  /\ \A i \in 1 .. (Len(att) - 1) : ~att[i].ok
                  /\ Len(att) < Len(el) => att[Len(att)].ok
                  /\ att[Len(att)].ok =>
                        /\ evalFile.current = netLog.name
                        /\ netParams = netGood[netLog.name].params

\* C9 witness: the embedded network and the working directory failed, the root
\* directory delivered the default network
C9_Witness ==
    /\ netLog.op = "load"
    /\ netLog.name = DefaultName
    /\ Len(netLog.attempts) = 3
    /\ ~netLog.attempts[1].ok /\ ~netLog.attempts[2].ok /\ netLog.attempts[3].ok
    /\ netLog.attempts[3].dir = RootDir
    /\ evalFile.current = DefaultName

\* The last Network::load returned without having loaded the name it was asked for
LoadFailed(log) ==
    /\ log.op = "load"
    /\ ~log.wasCurrent
    /\ \A i \in 1 .. Len(log.attempts) : ~log.attempts[i].ok

\* C12 as claimed: Network::load never returns with the requested network not loaded
\* (it terminates the process when no source parses)
C12_LoadIsFatal == netLog.op = "load" => evalFile.current = netLog.name

\* C12 as amended: Network::load returns when no source parses, leaving
\* evalFile.current different from the requested name; the Network::verify of that
\* name that follows terminates the process instead of returning
C12_FailedLoadIsFatalAtVerify ==
    [][LoadFailed(netLog) =>
          /\ evalFile.current # netLog.name
          /\ (netLog'.op \in {"verify", "exit"} /\ netLog'.name = netLog.name)
                => netLog'.op = "exit"]_vars

\* C12 witness: the process exited in the verify that followed a load of a user
\* network that no source delivered
C12_Witness ==
    /\ netLog.op = "exit"
    /\ netLog.name \in UserNames
    /\ LoadFailed(netLog.after)
    /\ netLog.after.name = netLog.name
    /\ Len(netLog.after.attempts) = 2

(***************************************************************************)
(* Specification and properties of the stream parser.                      *)
(***************************************************************************)
InitParse == TTInit /\ HistInit /\ NetInit /\ ParseInit /\ AccInit /\ ExtInit

NextParse ==
    /\ \E evalfilePath \in FileNames, file \in ParseFiles : ParseLoad(evalfilePath, file)
    /\ UNCHANGED <<ttVars, histVars, accVars, extVars>>

SpecParse == InitParse /\ [][NextParse]_vars

\* The length of a network file whose description has n bytes
FileLength(n) == 3 + n + (1 + FTPayloadLen) + LayerStacks * (1 + LayerPayloadLen)

\* The file format: is b a network file of this architecture
WellFormed(b) ==
    /\ Len(b) >= 3
    /\ b[1] = Version
    /\ b[2] = NetHash
    /\ Len(b) = FileLength(b[3])
    /\ b[3 + b[3] + 1] = FTHash
    /\ \A l \in 1 .. LayerStacks :
          b[3 + b[3] + (1 + FTPayloadLen) + (l - 1) * (1 + LayerPayloadLen) + 1] = LayerHash

\* C10: loading a stream fails (no description, evalFile.current and netDescription keep
\* their values) when the version differs, the header hash differs, a component fails to
\* read, the stream ends early, or bytes remain after the last layer stack; a stream is
\* accepted only if it ends exactly at EOF.
C10_MalformedStreamRejected ==
    pResult.op = "load" =>
        LET b == pStream.bytes
        IN  /\ (pStream.exists /\ Len(b) >= 1 /\ b[1] # Version) => ~pResult.ok
            /\ (pStream.exists /\ Len(b) >= 2 /\ b[2] # NetHash) => ~pResult.ok
            /\ (~pStream.exists \/ Len(b) < 3 \/ Len(b) < FileLength(b[3])) => ~pResult.ok
            /\ (pStream.exists /\ Len(b) >= 3 /\ Len(b) > FileLength(b[3])) => ~pResult.ok
            /\ (pStream.exists /\ Len(b) >= 3 /\ Len(b) > 3 + b[3]
                  /\ b[3 + b[3] + 1] # FTHash) => ~pResult.ok
            /\ pResult.ok <=> (pStream.exists /\ WellFormed(b))
            /\ ~pResult.ok => evalFile = pResult.before
            /\ pResult.ok =>
                  /\ evalFile.current = pResult.name
                  /\ evalFile.netDescription = SubSeq(b, 4, 3 + b[3])

\* C10 witness: a saved file with one byte appended is rejected and the network keeps
\* the name and description of the file loaded before
C10_Witness ==
    /\ pResult.op = "load"
    /\ \E g \in SavedStreams, t \in OtherTokens : pStream = FileOf(Append(g, t))
    /\ ~pResult.ok
    /\ pResult.before.current = "a.nnue"
    /\ pResult.name = DefaultName
    /\ evalFile.current = "a.nnue"
    /\ evalFile.netDescription = <<7>>

(***************************************************************************)
(* Specification and properties of the shared transposition table.         *)
(***************************************************************************)
InitTTConc == TTConcInit /\ HistInit /\ NetInit /\ ParseInit /\ AccInit /\ ExtInit

NextTTConc ==
    \/ /\ \E t \in Threads, key \in ConcKeys : ConcProbeStart(t, key)
       /\ UNCHANGED <<histVars, netVars, parseVars, accVars, extVars>>
    \/ /\ \E t \in Threads : ConcProbeLoadKey(t)
       /\ UNCHANGED <<histVars, netVars, parseVars, accVars, extVars>>
    \/ /\ \E t \in Threads : ConcProbeLoadData(t)
       /\ UNCHANGED <<histVars, netVars, parseVars, accVars, extVars>>
    \/ /\ \E t \in Threads : ConcProbeLoadCurrent(t)
       /\ UNCHANGED <<histVars, netVars, parseVars, accVars, extVars>>
    \/ /\ \E t \in Threads : ConcProbeLoadCandidate(t)
       /\ UNCHANGED <<histVars, netVars, parseVars, accVars, extVars>>
    \/ /\ \E t \in Threads : ConcWriteLoadKey(t)
       /\ UNCHANGED <<histVars, netVars, parseVars, accVars, extVars>>
    \/ /\ \E t \in Threads : ConcWriteLoadData(t)
       /\ UNCHANGED <<histVars, netVars, parseVars, accVars, extVars>>
    \/ /\ \E t \in Threads : ConcWriteStoreKey(t)
       /\ UNCHANGED <<histVars, netVars, parseVars, accVars, extVars>>
    \/ /\ \E t \in Threads : ConcWriteStoreData(t)
       /\ UNCHANGED <<histVars, netVars, parseVars, accVars, extVars>>
    \/ /\ \E t \in Threads : ConcWriteReturn(t)
       /\ UNCHANGED <<histVars, netVars, parseVars, accVars, extVars>>

SpecTTConc == InitTTConc /\ [][NextTTConc]_vars

\* C6: a probe's (key, payload) pair may combine the key of one write with the payload
\* of another, but the payload it returns is always a value stored by one single store
\* (or the zero of clear), never a byte-level mixture of two.
C6_PayloadFromOneStore ==
    /\ \A t \in Threads :
          ttThreads[t].res.op = "probe" =>
              ttThreads[t].res.packed \in ttStored.payloads \cup {ZeroPacked}
    /\ \A c \in Clusters, i \in EntryIdx :
          table[c][i].data \in ttStored.payloads \cup {ZeroPacked}

\* C6 witness: a probe returned a key shard stored by one thread's write together with
\* a payload stored by the other thread's write, for another key
C6_Witness ==
    \E t \in Threads :
        LET r == ttThreads[t].res
        IN  /\ r.op = "probe"
            /\ r.hit
            /\ r.keyBy # 0 /\ r.dataBy # 0 /\ r.keyBy # r.dataBy
            /\ r.packed \in ttStored.payloads
            /\ Unpack(r.packed).value16 = ConcValue(r.dataBy)
            /\ Unpack(r.packed).move16 = ConcMove(r.dataBy)

(***************************************************************************)
(* Specification of the accumulator stacks.                                *)
(***************************************************************************)
InitAcc == TTInit /\ HistInit /\ NetInit /\ ParseInit /\ AccInit /\ ExtInit
NextAcc ==
    \/ /\ \E root \in RootBoards : AccReset(root)
       /\ UNCHANGED <<ttVars, histVars, netVars, parseVars, extVars>>
    \/ /\ \E mv \in [from : Squares, to : Squares] : AccPush(mv)
       /\ UNCHANGED <<ttVars, histVars, netVars, parseVars, extVars>>
    \/ /\ AccPop
       /\ UNCHANGED <<ttVars, histVars, netVars, parseVars, extVars>>
    \/ /\ AccEvaluate
       /\ UNCHANGED <<ttVars, histVars, netVars, parseVars, extVars>>
SpecAcc == InitAcc /\ [][NextAcc]_vars

\* The from-scratch rows of a position for perspective c
ScratchPsqt(board, c) ==
    LET active == append_active_indices(c, board)
    IN  [accumulation |-> ToI16(Bias + SumOver(active, [i \in active |-> Weight(i)])),
         psqtAccumulation |-> SumOver(active, [i \in active |-> PsqtWeight(i)])]
ScratchThreat(board, c) ==
    LET active == threat_append_active_indices(c, board)
    IN  [accumulation |-> ToI16(SumOver(active, [i \in active |-> ThreatWeight(i)])),
         psqtAccumulation |-> SumOver(active, [i \in active |-> ThreatPsqtWeight(i)])]
RowIs(state, c, row) ==
    /\ state.accumulation[c] = row.accumulation
    /\ state.psqtAccumulation[c] = row.psqtAccumulation

\* C1: after any calls of reset, push, pop and evaluate, every entry below size of either
\* stack that is marked computed for a perspective holds, for that perspective, the
\* from-scratch accumulation and psqtAccumulation of the position at its ply
C1_ComputedRowsAreFromScratch ==
    \A i \in StackIdx : \A c \in Colors :
        i < psqt.size =>
            /\ psqt.acc[i].computed[c] => RowIs(psqt.acc[i], c, ScratchPsqt(posAt[i + 1], c))
            /\ threat.acc[i].computed[c] =>
                   RowIs(threat.acc[i], c, ScratchThreat(posAt[i + 1], c))

\* An evaluate three plies deep that filled entries of both stacks by a fused update, with
\* a lower entry computed as well
C1_Witness ==
    /\ accLast.op = "evaluate"
    /\ accLast.fusedPsqt /\ accLast.fusedThreat
    /\ psqt.size = MaxSize
    /\ \A c \in Colors : psqt.acc[psqt.size - 1].computed[c] /\ threat.acc[0].computed[c]

(***************************************************************************)
(* Specification of Network::save followed by Network::load.               *)
(***************************************************************************)
InitSave == InitCore /\ SaveInitIn(Builds) /\ RestInit
NextSave ==
    \/ /\ \E seed \in 1 .. SaveSeeds : SaveSet(seed)
       /\ UNCHANGED <<coreVars, stateVars, fenVars, optVars, drawVars, ageVars, bonusVars, contVars, cuckooVars, trVars, memVars, clearVars, engVars, regVars>>
    \/ /\ \E name \in SaveNames, d \in SaveDescriptions : SaveSave(name, d)
       /\ UNCHANGED <<coreVars, stateVars, fenVars, optVars, drawVars, ageVars, bonusVars, contVars, cuckooVars, trVars, memVars, clearVars, engVars, regVars>>
    \/ /\ SaveLoad
       /\ UNCHANGED <<coreVars, stateVars, fenVars, optVars, drawVars, ageVars, bonusVars, contVars, cuckooVars, trVars, memVars, clearVars, engVars, regVars>>
SpecSave == InitSave /\ [][NextSave]_vars

\* C11: a load of the stream written by save succeeds and leaves in memory exactly the
\* biases, weights, PSQT weights and layer parameters that were in memory when save was
\* called, with the description saved; and inverse_order_packs undoes order_packs on
\* every block of the biases in memory
C11_LoadOfSaveIsIdentity ==
    /\ svLast.op = "load" =>
          /\ svLast.ok
          /\ svNet = svFile.net
          /\ svLast.desc = svFile.desc
    /\ \A n \in {IF svBuild = "USE_AVX512" THEN 16 ELSE 8} : \A i \in {0, 8} :
          i + n <= Len(WordsOf(svNet.ft.biases)) =>
            With(SubSeq(WordsOf(svNet.ft.biases), i + 1, i + n), LAMBDA block :
                inverse_order_packs(order_packs(block, svBuild), svBuild) = block)
C11_Witness ==
    /\ svLast.op = "load"
    /\ svBuild = "USE_AVX512"
    /\ svFile.desc # <<>>
    /\ svNet = SaveNetOf(SaveSeeds)


(***************************************************************************)
(* Specification and properties of Engine::set_position.                   *)
(***************************************************************************)
MoveLists == UNION { [1 .. n -> MoveStrings] : n \in 0 .. MaxMoves }

InitStates == InitCore /\ ExtInit
NextStates ==
    /\ \E fen \in SetFens, moves \in MoveLists : SetPosition(fen, moves)
    /\ UNCHANGED <<coreVars, saveVars, fenVars, optVars, drawVars, ageVars, bonusVars, contVars, cuckooVars, trVars, memVars, clearVars, engVars, regVars>>
SpecStates == InitStates /\ [][NextStates]_vars

\* C13: after set_position(fen, moves) the deque holds one record for the position set
\* and one more for every move applied; the Position points to the last record; each
\* applied move was made into its own record, whose previous link designates the
\* record of the preceding ply; no record is its own predecessor
C13_OneRecordPerMove ==
    stLast.op = "set_position" =>
        /\ Len(states) = 1 + stLast.applied
        /\ stPos.st = Len(states)
        /\ \A i \in 1 .. Len(states) :
              /\ states[i].previous = i - 1
              /\ states[i].previous # i
              /\ i > 1 => states[i].move = to_move(stLast.moves[i - 1])


(***************************************************************************)
(* Specification and properties of Position::set and Position::fen.        *)
(***************************************************************************)
InitFen == InitCore /\ ExtInit
NextFen ==
    \/ /\ \E fenStr \in ValidFens \cup InvalidFens, isChess960 \in BOOLEAN :
            FenSet(fenStr, isChess960)
       /\ UNCHANGED <<coreVars, saveVars, stateVars, optVars, drawVars, ageVars, bonusVars, contVars, cuckooVars, trVars, memVars, clearVars, engVars, regVars>>
    \/ /\ FenFen
       /\ UNCHANGED <<coreVars, saveVars, stateVars, optVars, drawVars, ageVars, bonusVars, contVars, cuckooVars, trVars, memVars, clearVars, engVars, regVars>>
SpecFen == InitFen /\ [][NextFen]_vars

\* The fields of a string: the characters between two successive blanks
BlanksOf(str) == { i \in 1 .. Len(str) : str[i] = " " }
FieldsOf(str) ==
    LET blanks == BlanksOf(str) \cup {0, Len(str) + 1}
        nth(k) == CHOOSE i \in blanks : Cardinality({ j \in blanks : j < i }) = k
    IN  [k \in 1 .. (Cardinality(blanks) - 1) |-> SubSeq(str, nth(k - 1) + 1, nth(k) - 1)]

\* C14: for a valid six-field FEN string s, fen() after set(s) returns s: the same six
\* fields, the castling field written with the letters of the rook files in Chess960 mode
C14_FenOfSetIsIdentity ==
    (fenLast.op = "fen" /\ fenLast.fenStr \in ValidFens) =>
        LET in == FieldsOf(fenLast.fenStr)
            out == FieldsOf(fenLast.out)
        IN  /\ Len(out) = 6
            /\ \A i \in {1, 2, 4, 5, 6} : out[i] = in[i]
            /\ ~fenPos.chess960 => out[3] = in[3]
            /\ Len(out[3]) = Len(in[3])


InitOpt == InitCore /\ ExtInit

NextOpt ==
    /\ \E name \in SetoptionNames, value \in SetoptionValues : Setoption(name, value)
    /\ UNCHANGED <<coreVars, saveVars, stateVars, fenVars, drawVars, ageVars, bonusVars, contVars, cuckooVars, trVars, memVars, clearVars, engVars, regVars>>

SpecOpt == InitOpt /\ [][NextOpt]_vars

\* The option the last setoption named, as it was before the call
OptBefore == optLast.before[OptionKey(optLast.before, optLast.name)]

\* The value of the last setoption is one the option's type rejects
InvalidValue ==
    /\ optLast.found
    /\ \/ OptBefore.type = "spin" /\ ~StoiThrows(optLast.value)
             /\ (stoi(optLast.value) < OptBefore.min \/ stoi(optLast.value) > OptBefore.max)
       \/ OptBefore.type = "check" /\ optLast.value \notin {"true", "false"}
       \/ OptBefore.type = "combo"
             /\ ~ \E i \in 1 .. Len(OptBefore.defaultValue) :
                    OptBefore.defaultValue[i] # "var" /\ SameKey(OptBefore.defaultValue[i], optLast.value)

\* C16: an invalid option value leaves engine state untouched: after a
\* setoption that names an unknown option, or gives a spin value outside
\* [min, max], a check value other than true/false or a combo value not in
\* the list, the stored options are what they were and no on_change handler
\* has run.
C16_InvalidOptionLeavesState ==
    (optLast.op = "setoption" /\ (~optLast.found \/ InvalidValue))
        => options_map = optLast.before /\ ~optLast.ran

\* The part of it that holds: the stored value is unchanged.
OptInvalidKeepsValue ==
    (optLast.op = "setoption" /\ (~optLast.found \/ InvalidValue))
        => options_map = optLast.before


(***************************************************************************)
(* Specification of Position::is_draw over the StateInfo fields it reads.  *)
(***************************************************************************)
InitDraw == InitCore /\ ExtInit

NextDraw ==
    \/ /\ \E r \in Rule50Values, c \in {0, 1}, rep \in RepetitionValues, n \in 0 .. MaxLegal :
            DrawReach(r, c, rep, n)
       /\ UNCHANGED <<coreVars, saveVars, stateVars, fenVars, optVars, ageVars, bonusVars, contVars, cuckooVars, trVars, memVars, clearVars, engVars, regVars>>
    \/ /\ \E ply \in 0 .. MaxDrawPly : DrawIsDraw(ply)
       /\ UNCHANGED <<coreVars, saveVars, stateVars, fenVars, optVars, ageVars, bonusVars, contVars, cuckooVars, trVars, memVars, clearVars, engVars, regVars>>

SpecDraw == InitDraw /\ [][NextDraw]_vars

\* The side to move is checkmated: in check and without a legal move
Mated == drawSt.checkersBB # 0 /\ drawSt.legal = 0

\* C17: is_draw(ply) is true exactly when rule50 > 99 and the side to move is
\* not in check or has a legal move, or repetition is non-zero and less than
\* ply; so rule50 = 99 alone is no draw, and rule50 = 100 is one unless the
\* side to move is mated.
C17_IsDrawExact ==
    drawLast.op = "is_draw" =>
        /\ drawLast.result <=>
              \/ drawSt.rule50 >= 100 /\ ~Mated
              \/ drawSt.repetition \in (RepetitionValues \ {0})
                    /\ drawLast.ply - drawSt.repetition >= 1
        /\ (drawSt.rule50 = 99 /\ drawSt.repetition = 0) => ~drawLast.result
        /\ (drawSt.rule50 = 100 /\ ~Mated) => drawLast.result
        /\ (drawSt.rule50 = 100 /\ Mated /\ drawSt.repetition = 0) => ~drawLast.result

C17_Witness ==
    /\ drawLast.op = "is_draw"
    /\ drawSt.rule50 = 100 /\ Mated /\ drawSt.repetition = 2 /\ drawLast.ply = 2
    /\ ~drawLast.result


(***************************************************************************)
(* Fused and single forward updates of the accumulator stacks.             *)
(***************************************************************************)
\* The forward pass of UpdateHalfka with one update_accumulator_incremental per ply
RECURSIVE forward_update_single(_, _, _, _)
forward_update_single(st, perspective, ksq, next) ==
    IF next >= st.size THEN st
    ELSE forward_update_single(
             [st EXCEPT !.acc[next] =
                 update_accumulator_incremental(TRUE, perspective, ksq, st.acc[next],
                                                st.acc[next - 1]).state],
             perspective, ksq, next + 1)

\* The forward pass of UpdateThreats with one update_accumulator_incremental per ply
RECURSIVE threat_forward_update_single(_, _, _, _)
threat_forward_update_single(st, perspective, ksq, next) ==
    IF next >= st.size THEN st
    ELSE threat_forward_update_single(
             [st EXCEPT !.acc[next] =
                 threat_update_accumulator_incremental(TRUE, perspective, ksq, st.acc[next],
                                                       st.acc[next - 1]).state],
             perspective, ksq, next + 1)

\* The rows of perspective c from entry begin + 1 on are the same in two stacks
SameRowsFrom(st, other, c, begin) ==
    \A i \in StackIdx :
        (begin < i /\ i < st.size) =>
            /\ st.acc[i].computed[c] =>
                  RowIs(st.acc[i], c, [accumulation |-> other.acc[i].accumulation[c],
                                       psqtAccumulation |-> other.acc[i].psqtAccumulation[c]])
            /\ i = st.size - 1 => st.acc[i].computed[c]

\* An evaluate step whose forward pass of perspective c fused two plies stores, in the
\* PSQ stack and in the threat stack, the rows the single updates would store
FusedStoresSingleRows(c) ==
    \A board \in {posAt[Len(posAt)]} :
    \A ksq \in {KingSquare(board, c)} :
        /\ \A p \in {evaluate_psqt_side(psqt, c, board, cache)} :
              (p.forward /\ p.fused) =>
                  SameRowsFrom(psqt', forward_update_single(psqt, c, ksq, p.last + 1), c, p.last)
        /\ \A t \in {evaluate_threats_side(threat, psqt, c, board)} :
              (t.forward /\ t.fused) =>
                  SameRowsFrom(threat', threat_forward_update_single(threat, c, ksq, t.last + 1),
                               c, t.last)

\* C18: double-update fusion does not change outputs: when the forward update
\* fuses plies n and n + 1 (PSQ: ply n's to square is ply n + 1's removed
\* square; threats: ply n + 1's removed square is among ply n's threatening
\* squares), the rows stored in acc[n + 1] are those two successive single-ply
\* updates acc[n - 1] -> acc[n] -> acc[n + 1] would store.
C18_FusionKeepsOutputs ==
    [][accLast'.op = "evaluate" => \A c \in Colors : FusedStoresSingleRows(c)]_vars

\* An evaluate that fused a capture and the recapture on the same square in both
\* stacks: two pieces are left on the board
C18_Witness ==
    /\ accLast.op = "evaluate"
    /\ accLast.fusedPsqt /\ accLast.fusedThreat
    /\ Cardinality({sq \in Squares : posAt[Len(posAt)][sq] # NO_PIECE}) = 2
    /\ \A c \in Colors : Latest(psqt).computed[c] /\ Latest(threat).computed[c]


\* C19: after BigNetworkAccumulator::evaluate (and SmallNetworkAccumulator::evaluate,
\* which is its PSQ part) returns, the latest accumulator of every stack has
\* computed[WHITE] and computed[BLACK] set, whatever flags and diffs the stack
\* held before the call.
C19_LatestComputedAfterEvaluate ==
    accLast.op = "evaluate" =>
        \A c \in Colors : Latest(psqt).computed[c] /\ Latest(threat).computed[c]

\* An evaluate at full depth without a fused PSQ update that left an entry below the
\* latest one not computed for some perspective
C19_Witness ==
    /\ accLast.op = "evaluate"
    /\ ~accLast.fusedPsqt
    /\ psqt.size = MaxSize
    /\ \E c \in Colors : ~psqt.acc[psqt.size - 2].computed[c]
    /\ \A c \in Colors : Latest(psqt).computed[c] /\ Latest(threat).computed[c]


(***************************************************************************)
(* The transposition table after clear and resize.                         *)
(***************************************************************************)
\* Keys of the first and of the last cluster
ClearKeys == {0, 1, Pow2(KeyBits - 1) + 1}

NextTTClear ==
    \/ /\ \E key \in ClearKeys : Probe(key)
       /\ UNCHANGED <<histVars, netVars, parseVars, accVars, extVars>>
    \/ /\ ttProbe.op = "probe"
       /\ \E d \in WriteDepths, m \in WriteMoves :
               Write(ttProbe.key, 9, FALSE, BOUND_LOWER, d, m, 4)
       /\ UNCHANGED <<histVars, netVars, parseVars, accVars, extVars>>
    \/ /\ NewSearch
       /\ UNCHANGED <<histVars, netVars, parseVars, accVars, extVars>>
    \/ /\ \E n \in 1 .. 2 : Clear(n)
       /\ UNCHANGED <<histVars, netVars, parseVars, accVars, extVars>>
    \/ /\ \E n \in 1 .. 2 : Resize(n)
       /\ UNCHANGED <<histVars, netVars, parseVars, accVars, extVars>>

SpecTTClear == InitTT /\ [][NextTTClear]_vars

\* The values of maxAge hashfull is asked for
MaxAges == {0, 1, 31}

\* Every entry of the table has a zero key shard and a zero payload
AllZero(tbl) == \A c \in Clusters : \A i \in EntryIdx : tbl[c][i] = ZeroEntry

HashfullZero(tbl, gen8) == \A maxAge \in MaxAges : hashfull(tbl, gen8, maxAge) = 0

\* C20: after TranspositionTable::clear or resize returns, generation() is 0,
\* every entry's key shard and payload are zero, probe finds no key and
\* hashfull(maxAge) is 0 for every maxAge.
ClearedState ==
    ttLast.op \in {"clear", "resize"} =>
        /\ generation8 = 0
        /\ AllZero(table)
        /\ \A key \in Keys \cup ClearKeys : ~ProbeResult(table, generation8, key).found
        /\ HashfullZero(table, generation8)

\* C20, second half: hashfull stays 0, also across new_search calls, until a
\* write is performed: a step that is not a write leaves a zero table zero,
\* with hashfull 0 at the generation it reaches.
StaysZeroUntilWrite ==
    (AllZero(table) /\ ttLast'.op # "write") =>
        (AllZero(table') /\ HashfullZero(table', generation8'))

C20_ClearEmptiesTable == []ClearedState /\ [][StaysZeroUntilWrite]_vars

\* A clear of a table that held two occupied entries
C20_Witness ==
    /\ ttLast.op = "clear"
    /\ ttLast.held >= 2
    /\ AllZero(table)


(***************************************************************************)
(* Specification of the entry age: searches without end, writes of every   *)
(* pv flag and bound, relative_age at any time.                            *)
(***************************************************************************)
InitAge == InitCore /\ ExtInit

NextAge ==
    \/ /\ AgeNewSearch
       /\ UNCHANGED <<coreVars, saveVars, stateVars, fenVars, optVars, drawVars, bonusVars, contVars, cuckooVars, trVars, memVars, clearVars, engVars, regVars>>
    \/ /\ \E pv \in BOOLEAN, b \in {BOUND_NONE, BOUND_UPPER, BOUND_LOWER, BOUND_EXACT} :
             AgeWrite(pv, b)
       /\ UNCHANGED <<coreVars, saveVars, stateVars, fenVars, optVars, drawVars, bonusVars, contVars, cuckooVars, trVars, memVars, clearVars, engVars, regVars>>
    \/ /\ AgeRelativeAge
       /\ UNCHANGED <<coreVars, saveVars, stateVars, fenVars, optVars, drawVars, bonusVars, contVars, cuckooVars, trVars, memVars, clearVars, engVars, regVars>>

SpecAge == InitAge /\ [][NextAge]_vars

\* C21: the generation is always a multiple of 8, and for every stored
\* genBound8 byte e, relative_age = (263 + g - e) & 0xF8 is
\* 8 * ((g/8 - e/8) mod 32): it ignores the three low pv/bound bits of e and
\* is the number of searches since the write, modulo 32, also after
\* generation8 has wrapped past 255.
C21_RelativeAgeIsElapsedGenerations ==
    /\ ageGen % 8 = 0
    /\ ageLast.op = "relative_age" =>
          /\ ageLast.age = 8 * (((ageGen \div 8) - (ageEntry.genBound8 \div 8)) % 32)
          /\ ageLast.age = relative_age([ageEntry EXCEPT !.genBound8 = 8 * (@ \div 8)], ageGen)

\* The generation has wrapped since an entry with all three low bits set was
\* written in the last generation before the wrap; its age is one search
C21_Witness ==
    /\ ageLast.op = "relative_age"
    /\ ageGen = 0
    /\ ageEntry.genBound8 = 255
    /\ ageLast.age = 8


(***************************************************************************)
(* Specification of stat_bonus and stat_malus over the depths of a search. *)
(***************************************************************************)
InitBonus == InitCore /\ ExtInit

NextBonus ==
    \/ /\ \E d \in 0 .. MaxStatDepth : StatBonus(d)
       /\ UNCHANGED <<coreVars, saveVars, stateVars, fenVars, optVars, drawVars, ageVars, contVars, cuckooVars, trVars, memVars, clearVars, engVars, regVars>>
    \/ /\ \E d \in 0 .. MaxStatDepth : StatMalus(d)
       /\ UNCHANGED <<coreVars, saveVars, stateVars, fenVars, optVars, drawVars, ageVars, contVars, cuckooVars, trVars, memVars, clearVars, engVars, regVars>>

SpecBonus == InitBonus /\ [][NextBonus]_vars

\* The line 253d - 356 capped at 1117, and the line 517d - 308 capped at 1206
BonusLine(d) == IF d >= 6 THEN 1117 ELSE 253 * d - 356
MalusLine(d) == IF d >= 3 THEN 1206 ELSE 517 * d - 308

\* C23: stat_bonus(d) is min(253d - 356, 1117) and stat_malus(d) is
\* min(517d - 308, 1206), both clamped at zero when the depth is tiny: neither
\* returns a negative value for any depth.
C23_BonusNeverNegative ==
    /\ sbLast.op = "stat_bonus" =>
          sbLast.value = (IF BonusLine(sbLast.d) < 0 THEN 0 ELSE BonusLine(sbLast.d))
    /\ sbLast.op = "stat_malus" =>
          sbLast.value = (IF MalusLine(sbLast.d) < 0 THEN 0 ELSE MalusLine(sbLast.d))
    /\ sbLast.value >= 0

\* C23 as the code has it: the two values are the capped lines without a
\* floor; stat_bonus is negative exactly for d <= 1 and stat_malus exactly for
\* d <= 0.
C23_BonusIsCappedLine ==
    /\ sbLast.op = "stat_bonus" =>
          /\ sbLast.value = BonusLine(sbLast.d)
          /\ sbLast.value < 0 <=> sbLast.d <= 1
    /\ sbLast.op = "stat_malus" =>
          /\ sbLast.value = MalusLine(sbLast.d)
          /\ sbLast.value < 0 <=> sbLast.d <= 0

\* stat_bonus at depth 1 is -103
C23_Witness == sbLast.op = "stat_bonus" /\ sbLast.d = 1 /\ sbLast.value = -103


(***************************************************************************)
(* Continuation histories: moves are made and unmade and the histories of  *)
(* the current node are updated.                                           *)
(***************************************************************************)
InitCont == InitCore /\ ExtInit

NextCont ==
    \/ /\ \E move \in ContMoves : ContMake(move)
       /\ UNCHANGED <<coreVars, saveVars, stateVars, fenVars, optVars, drawVars, ageVars, bonusVars, cuckooVars, trVars, memVars, clearVars, engVars, regVars>>
    \/ /\ ContUnmake
       /\ UNCHANGED <<coreVars, saveVars, stateVars, fenVars, optVars, drawVars, ageVars, bonusVars, cuckooVars, trVars, memVars, clearVars, engVars, regVars>>
    \/ /\ \E inCheck \in BOOLEAN, bonus \in ContBonuses : ContUpdate(inCheck, bonus)
       /\ UNCHANGED <<coreVars, saveVars, stateVars, fenVars, optVars, drawVars, ageVars, bonusVars, cuckooVars, trVars, memVars, clearVars, engVars, regVars>>

SpecCont == InitCont /\ [][NextCont]_vars

\* The offsets the update is to touch: 1, 2, 3, 4 and 6, in check 1 and 2
\* only, and only where the move at the offset is a real move
ContTouched ==
    {i \in {1, 2, 3, 4, 6} :
        /\ chLast.inCheck => i <= 2
        /\ i <= Len(chStack)
        /\ chStack[Len(chStack) - i + 1] \notin {"none", "null"}}

\* A quarter of the bonus, rounded toward zero
ContQuarter(b) == CHOOSE q \in -300 .. 300 : Abs(b - 4 * q) < 4 /\ (b - 4 * q) * b >= 0

\* The tables after the first n updates of a log
RECURSIVE ContReplay(_, _)
ContReplay(log, n) ==
    IF n = 0 THEN chLast.before
    ELSE [ContReplay(log, n - 1) EXCEPT
             ![ContTableOf(chStack[Len(chStack) - log[n].offset + 1])] =
                 ToI16(@ + log[n].bonus - TruncDiv(@ * Abs(log[n].bonus), 29952))]

\* C24: update_continuation_histories updates the entries of the frames at
\* offsets 1, 2, 3, 4 and 6 behind the current node whose move is a real
\* move, in check those at offsets 1 and 2 only; offset 3 receives a quarter
\* of the bonus and every other offset the full bonus; nothing else changes
C24_ContinuationOffsets ==
    chLast.op = "update" =>
        /\ {chLast.log[n].offset : n \in DOMAIN chLast.log} = ContTouched
        /\ \A n \in DOMAIN chLast.log :
              /\ n > 1 => chLast.log[n - 1].offset < chLast.log[n].offset
              /\ chLast.log[n].bonus =
                    IF chLast.log[n].offset = 3 THEN ContQuarter(chLast.bonus)
                    ELSE chLast.bonus
        /\ chTables = ContReplay(chLast.log, Len(chLast.log))
        /\ \A t \in ContTables :
              (\A i \in ContTouched : ContTableOf(chStack[Len(chStack) - i + 1]) # t)
                  => chTables[t] = chLast.before[t]

\* An update out of check with real moves at offsets 3 and 6, a null move at
\* offset 2 and a negative bonus whose quarter is not exact
C24_Witness ==
    /\ chLast.op = "update"
    /\ ~chLast.inCheck
    /\ chLast.bonus = -103
    /\ Len(chStack) = 6
    /\ chStack[5] = "null"
    /\ {3, 6} \subseteq ContTouched
    /\ \E n \in DOMAIN chLast.log : chLast.log[n].offset = 3 /\ chLast.log[n].bonus = -25


(***************************************************************************)
(* The transposition table sampled by hashfull: probes, writes, new        *)
(* searches and hashfull at any time.                                      *)
(***************************************************************************)
\* Keys of the three shards of the first cluster and a key of the last cluster
HashfullKeys == {0, 1, 2, Pow2(KeyBits - 1) + 1}

NextHashfull ==
    \/ /\ \E key \in HashfullKeys : Probe(key)
       /\ UNCHANGED <<histVars, netVars, parseVars, accVars, extVars>>
    \/ /\ ttProbe.op = "probe"
       /\ Write(ttProbe.key, 9, FALSE, BOUND_LOWER, -2, MOVE_NONE, 4)
       /\ UNCHANGED <<histVars, netVars, parseVars, accVars, extVars>>
    \/ /\ NewSearch
       /\ UNCHANGED <<histVars, netVars, parseVars, accVars, extVars>>
    \/ /\ \E maxAge \in MaxAges : Hashfull(maxAge)
       /\ UNCHANGED <<histVars, netVars, parseVars, accVars, extVars>>

SpecHashfull == InitTT /\ [][NextHashfull]_vars

\* The entries of the sampled clusters: all three entries of each of the
\* first clusters (1000 in the program)
SampledEntries == {<<c, i>> \in Clusters \X (0 .. 2) : c < HashfullSample}

\* The depth8 and genBound8 bytes of an entry's payload
Depth8Byte(c, i) == table[c][i].data[1]
GenBound8Byte(c, i) == table[c][i].data[2]

\* The searches between an entry's generation and the current one, modulo 32
SearchesSince(c, i) == ((generation8 \div 8) - (GenBound8Byte(c, i) \div 8)) % 32

\* The sampled entries hashfull(maxAge) is to count
CountedEntries(maxAge) ==
    {e \in SampledEntries : Depth8Byte(e[1], e[2]) # 0 /\ 8 * SearchesSince(e[1], e[2]) <= 8 * maxAge}

InitCuckoo == InitCore /\ ExtInit

NextCuckoo ==
    \/ /\ \E seed \in CuckooSeeds : CuckooPrepare(seed)
       /\ UNCHANGED <<coreVars, saveVars, stateVars, fenVars, optVars, drawVars, ageVars, bonusVars, contVars, trVars, memVars, clearVars, engVars, regVars>>
    \/ /\ CuckooPiece
       /\ UNCHANGED <<coreVars, saveVars, stateVars, fenVars, optVars, drawVars, ageVars, bonusVars, contVars, trVars, memVars, clearVars, engVars, regVars>>

SpecCuckoo == InitCuckoo /\ [][NextCuckoo]_vars

\* The reversible moves: a non-pawn piece, two squares s1 < s2, and the piece
\* attacks s2 from s1 on an empty board
ReversibleMoves ==
    {p \in (1 .. 12) \X (0 .. 63) \X (0 .. 63) :
        /\ p[2] < p[3]
        /\ CuckooPieces[p[1]] \notin {1, 9}
        /\ attacks_bb_empty(CuckooPieces[p[1]] % 8, p[2], p[3])}

\* The slots that hold a move
OccupiedSlots == {i \in DOMAIN cuckooMove : cuckooMove[i] # 0}

\* C27: when Position::init has finished, 3668 reversible moves have been
\* inserted, 3668 slots of the cuckoo table are occupied, the pairs in the
\* table are the inserted (key, move) pairs, none lost, and every pair sits
\* at index H1(key) or H2(key)
C27_CuckooHoldsAllMoves ==
    ckLoop.phase = "done" =>
        /\ ckCount = 3668
        /\ Cardinality(ReversibleMoves) = 3668
        /\ Cardinality(OccupiedSlots) = 3668
        /\ {<<cuckoo[i], cuckooMove[i]>> : i \in OccupiedSlots}
              = {<<CuckooKey(ckSeed, p[1], p[2], p[3]), 64 * p[2] + p[3]>> : p \in ReversibleMoves}
        /\ \A i \in OccupiedSlots :
              \/ i = cuckoo[i] % 8192
              \/ i = (cuckoo[i] \div 65536) % 8192

\* Position::init has finished and some pair sits at its second index: it was
\* evicted by a later insertion
C27_Witness ==
    /\ ckLoop.phase = "done"
    /\ ckCount = 3668
    /\ \E i \in OccupiedSlots : i # cuckoo[i] % 8192


(***************************************************************************)
(* The feature transformer's output: accumulators of a position, then      *)
(* transform for either side to move in every build.                       *)
(***************************************************************************)
InitTransform == InitCore /\ ExtInit

NextTransform ==
    \/ /\ \E slope \in TransformSlopes, shift \in TransformShifts : TransformPosition(slope, shift)
       /\ UNCHANGED <<coreVars, saveVars, stateVars, fenVars, optVars, drawVars, ageVars, bonusVars, contVars, cuckooVars, memVars, clearVars, engVars, regVars>>
    \/ /\ \E stm \in Colors, build \in TransformBuilds : Transform(stm, build)
       /\ UNCHANGED <<coreVars, saveVars, stateVars, fenVars, optVars, drawVars, ageVars, bonusVars, contVars, cuckooVars, memVars, clearVars, engVars, regVars>>

SpecTransform == InitTransform /\ [][NextTransform]_vars

\* The perspective of output half p: the side to move first
PerspectiveOf(p) == IF p = 0 THEN trLast.stm ELSE 1 - trLast.stm

\* The pairwise product of entry j of half p: both factors clamped to
\* 0 .. 127, the product shifted right by 7
PairProduct(p, j) ==
    ((IF trAcc[PerspectiveOf(p)][j] < 0 THEN 0
      ELSE IF trAcc[PerspectiveOf(p)][j] > 127 THEN 127 ELSE trAcc[PerspectiveOf(p)][j])
     * (IF trAcc[PerspectiveOf(p)][j + 64] < 0 THEN 0
        ELSE IF trAcc[PerspectiveOf(p)][j + 64] > 127 THEN 127
        ELSE trAcc[PerspectiveOf(p)][j + 64])) \div 128

\* The statement as first put: output[(H/2) * p + j] is the product of the
\* accumulator entries j and j + H/2, in every build
C25_OutputInAccumulatorOrder ==
    trLast.op = "transform" =>
        \A p \in 0 .. 1 : \A j \in 0 .. 63 : trLast.output[p][j] = PairProduct(p, j)

\* The entry whose product lands at output j: the packs of AVX2 and AVX512
\* interleave groups of eight within a chunk of 32 and of 64 outputs
PackSource(build, j) ==
    CASE build = "USE_AVX2" ->
            32 * (j \div 32) + 8 * <<0, 2, 1, 3>>[((j % 32) \div 8) + 1] + (j % 8)
      [] build = "USE_AVX512" ->
            64 * (j \div 64) + 8 * <<0, 4, 1, 5, 2, 6, 3, 7>>[((j % 64) \div 8) + 1] + (j % 8)
      [] OTHER -> j

\* C25 (amended): every output value of transform lies in 0 .. 126, and
\* output[(H/2) * p + j] is the clamped pairwise product of the accumulator
\* entries PackSource(j) and PackSource(j) + H/2 of perspective p, side to
\* move first: entry j itself in the scalar and SSE2 builds, the entry the
\* packs instruction places at j in the AVX2 and AVX512 builds
C25_OutputIsPackedProducts ==
    trLast.op = "transform" =>
        \A p \in 0 .. 1 : \A j \in 0 .. 63 :
            /\ trLast.output[p][j] \in 0 .. 126
            /\ trLast.output[p][j] = PairProduct(p, PackSource(trLast.build, j))

\* A transform of the AVX2 build whose output differs from the products in
\* accumulator order, with products at both ends of the range
C25_Witness ==
    /\ trLast.op = "transform"
    /\ trLast.build = "USE_AVX2"
    /\ \E j \in 0 .. 63 : trLast.output[0][j] # PairProduct(0, j)
    /\ \E j \in 0 .. 63 : trLast.output[0][j] = 126
    /\ \E j \in 0 .. 63 : trLast.output[0][j] = 0


(***************************************************************************)
(* The transposition table's memory: the program starts, the table is      *)
(* resized and destroyed.                                                  *)
(***************************************************************************)
InitMem == InitCore /\ ExtInit

NextMem ==
    \/ /\ \E build \in MemBuilds : MemStart(build)
       /\ UNCHANGED <<coreVars, saveVars, stateVars, fenVars, optVars, drawVars, ageVars, bonusVars, contVars, cuckooVars, trVars, clearVars, engVars, regVars>>
    \/ /\ \E mbSize \in MemSizes : MemResize(mbSize)
       /\ UNCHANGED <<coreVars, saveVars, stateVars, fenVars, optVars, drawVars, ageVars, bonusVars, contVars, cuckooVars, trVars, clearVars, engVars, regVars>>
    \/ /\ MemDestroy
       /\ UNCHANGED <<coreVars, saveVars, stateVars, fenVars, optVars, drawVars, ageVars, bonusVars, contVars, cuckooVars, trVars, clearVars, engVars, regVars>>

SpecMem == InitMem /\ [][NextMem]_vars

\* C26: aligned_large_pages_free(nullptr) is a no-op: a resize or a
\* destruction of a table whose pointer is null fails no assertion, reads no
\* memory and frees nothing, so the process is not ended by the free and
\* the blocks that were live stay live
C26_FreeNullIsNoOp ==
    (memLast.op \in {"resize", "destroy"} /\ memLast.freed = 0) =>
        /\ memProc \in {"running", "exit failure"}
        /\ \A b \in DOMAIN memLast.heap : b \in DOMAIN memHeap



\* The forward pass fuses entry j with entry j + 1 of the PSQ stack, of the threat stack
PsqtFusable(j) ==
    /\ j + 1 < psqt.size
    /\ psqt.acc[j].diff.to # SQ_NONE
    /\ psqt.acc[j].diff.to = psqt.acc[j + 1].diff.remove_sq
ThreatFusable(j) ==
    /\ j + 1 < threat.size
    /\ psqt.acc[j + 1].diff.remove_sq # SQ_NONE
    /\ psqt.acc[j + 1].diff.remove_sq \in threat.acc[j].diff.threateningSqs

\* Every entry above last of a stack is computed for perspective c
AllComputedAbove(st, last, c) ==
    \A j \in StackIdx : (last < j /\ j < st.size) => st.acc[j].computed[c]

\* The statement as first put: an evaluate step whose forward pass starts at
\* last leaves every entry above last computed
ForwardMarksAll(c) ==
    \A board \in {posAt[Len(posAt)]} :
        /\ \A p \in {evaluate_psqt_side(psqt, c, board, cache)} :
              p.forward => AllComputedAbove(psqt', p.last, c)
        /\ \A t \in {evaluate_threats_side(threat, psqt, c, board)} :
              t.forward => AllComputedAbove(threat', t.last, c)

ComputedButFusedMiddles(st, last, c, Fusable(_)) ==
    /\ st.acc[st.size - 1].computed[c]
    /\ \A j \in StackIdx : (last < j /\ j < st.size /\ ~st.acc[j].computed[c]) =>
          /\ Fusable(j)
          /\ st.acc[j + 1].computed[c]
          /\ st.acc[j - 1].computed[c]
    /\ (\A j \in StackIdx : (last < j /\ j < st.size) => ~Fusable(j))
          => AllComputedAbove(st, last, c)

ForwardMarksButMiddles(c) ==
    \A board \in {posAt[Len(posAt)]} :
        /\ \A p \in {evaluate_psqt_side(psqt, c, board, cache)} :
              p.forward => ComputedButFusedMiddles(psqt', p.last, c, PsqtFusable)
        /\ \A t \in {evaluate_threats_side(threat, psqt, c, board)} :
              t.forward => ComputedButFusedMiddles(threat', t.last, c, ThreatFusable)

RestoredFrom(st, last, c, Scratch(_, _)) ==
    \A j \in StackIdx : (last <= j /\ j < st.size) =>
        /\ st.acc[j].computed[c]
        /\ RowIs(st.acc[j], c, Scratch(posAt[j + 1], c))

\* An evaluate step that does not find a computed entry at last refreshes the
\* cache entry of c's king square to the position and restores [last, size - 1]
BackwardRestores(c) ==
    \A board \in {posAt[Len(posAt)]} :
        /\ \A p \in {evaluate_psqt_side(psqt, c, board, cache)} :
              ~p.forward =>
                  /\ ~psqt.acc[p.last].computed[c]
                  /\ RestoredFrom(psqt', p.last, c, ScratchPsqt)
                  /\ cache'[KingSquare(board, c)][c].pieces = board
                  /\ RowIs(Latest(psqt'), c,
                           [accumulation |->
                                cache'[KingSquare(board, c)][c].accumulation,
                            psqtAccumulation |->
                                cache'[KingSquare(board, c)][c].psqtAccumulation])
        /\ \A t \in {evaluate_threats_side(threat, psqt, c, board)} :
              ~t.forward =>
                  /\ ~threat.acc[t.last].computed[c]
                  /\ RestoredFrom(threat', t.last, c, ScratchThreat)

\* C29: when the accumulator at index last is not computed for perspective c,
\* evaluate rebuilds the latest accumulator (from the Finny cache entry of c's
\* current king square for PSQ, from scratch for threats) and backward-updates
\* every index from size - 2 down to last: afterwards every index in
\* [last, size - 1] is computed for c and holds the from-scratch rows of the
\* position of its own ply
C29_BackwardRestoresDownToLast ==
    [][accLast'.op = "evaluate" => \A c \in Colors : BackwardRestores(c)]_vars

\* An evaluate two plies above a root that was never evaluated, no king move
\* between: the cache entry of white's king square holds the position, and
\* the backward update restored the entries of both plies below the top
C29_Witness ==
    /\ accLast.op = "evaluate"
    /\ ~accLast.fusedPsqt
    /\ psqt.size = 3
    /\ \A j \in 1 .. 2 : ~requires_refresh(psqt.acc[j].diff, WHITE)
    /\ cache[KingSquare(posAt[3], WHITE)][WHITE].pieces = posAt[3]
    /\ posAt[3] # posAt[1]
    /\ \A j \in 0 .. 2 :
          /\ psqt.acc[j].computed[WHITE]
          /\ RowIs(psqt.acc[j], WHITE, ScratchPsqt(posAt[j + 1], WHITE))

\* The entries of a stack above the root that the scan can stop at: computed
\* for perspective c, or reached by a move that requires a refresh for c
UsableEntries(st, c, Refresh(_, _)) ==
    {i \in 1 .. st.size - 1 : st.acc[i].computed[c] \/ Refresh(st.acc[i].diff, c)}

\* The greatest of them, 0 when there is none
GreatestUsable(st, c, Refresh(_, _)) ==
    IF UsableEntries(st, c, Refresh) = {} THEN 0
    ELSE CHOOSE i \in UsableEntries(st, c, Refresh) :
             \A k \in UsableEntries(st, c, Refresh) : k <= i

\* No entry above last is computed for c or requires a refresh for c
NoneUsableAbove(st, c, last, Refresh(_, _)) ==
    \A j \in StackIdx : (last < j /\ j < st.size) =>
        /\ ~st.acc[j].computed[c]
        /\ ~Refresh(st.acc[j].diff, c)

\* C30: find_last_usable_accumulator(c) scans backwards from the top and
\* returns the greatest index i in [1, size - 1] such that acc[i].computed[c]
\* is true or requires_refresh(acc[i].diff, c) is true, and 0 when no such
\* index exists; every index above the returned one is neither computed nor
\* refresh-requiring for c.  For the PSQ stack and for the threat stack.
C30_FindLastIsGreatestUsable ==
    \A c \in Colors :
        /\ find_last_usable_accumulator(psqt, c, psqt.size - 1)
               = GreatestUsable(psqt, c, requires_refresh)
        /\ NoneUsableAbove(psqt, c, find_last_usable_accumulator(psqt, c, psqt.size - 1),
                           requires_refresh)
        /\ threat_find_last_usable_accumulator(threat, c, threat.size - 1)
               = GreatestUsable(threat, c, threat_requires_refresh)
        /\ NoneUsableAbove(threat, c,
                           threat_find_last_usable_accumulator(threat, c, threat.size - 1),
                           threat_requires_refresh)

\* A capture evaluated at ply 1 and the recapture by black's king at ply 2:
\* the scan for black stops at the top entry, which is not computed but
\* requires a refresh; the scan for white passes the top entry, which is
\* neither computed nor refresh-requiring for white, and stops at entry 1,
\* which is computed
C30_Witness ==
    /\ psqt.size = 3
    /\ ~psqt.acc[2].computed[BLACK]
    /\ requires_refresh(psqt.acc[2].diff, BLACK)
    /\ find_last_usable_accumulator(psqt, BLACK, psqt.size - 1) = 2
    /\ ~psqt.acc[2].computed[WHITE]
    /\ ~requires_refresh(psqt.acc[2].diff, WHITE)
    /\ psqt.acc[1].computed[WHITE]
    /\ find_last_usable_accumulator(psqt, WHITE, psqt.size - 1) = 1
    /\ threat_find_last_usable_accumulator(threat, WHITE, threat.size - 1) = 1

(***************************************************************************)
(* probe on a key no entry of the cluster holds: keys of four shards other *)
(* than 0, so that an empty entry never matches, written at two depths     *)
(* eight apart, one search after the other.                                *)
(***************************************************************************)
MissKeys == {1, 2, 3, 4}
MissDepths == {-6, 2}

NextMiss ==
    \/ /\ \E key \in MissKeys : Probe(key)
       /\ UNCHANGED <<histVars, netVars, parseVars, accVars, extVars>>
    \/ /\ ttProbe.op = "probe"
       /\ \E d \in MissDepths : Write(ttProbe.key, 9, FALSE, BOUND_LOWER, d, MOVE_NONE, 4)
       /\ UNCHANGED <<histVars, netVars, parseVars, accVars, extVars>>
    \/ /\ NewSearch
       /\ UNCHANGED <<histVars, netVars, parseVars, accVars, extVars>>

SpecMiss == InitTT /\ [][NextMiss]_vars

\* The cluster the last probe looked into
ProbedCluster == table[(ttProbe.key * ClusterCount) \div Pow2(KeyBits)]

\* The last probe found its key shard in no entry of the cluster
ProbeMissed ==
    /\ ttProbe.op = "probe"
    /\ \A i \in EntryIdx : ProbedCluster[i].key # ttProbe.key % 65536

\* The replace value of entry i of that cluster: depth8 minus its relative age
ReplaceValue(i) ==
    Unpack(ProbedCluster[i].data).depth8
        - relative_age(Unpack(ProbedCluster[i].data), generation8)

\* C31: when no entry of the cluster matches the key shard, probe returns
\* found = false, the default data (no move, VALUE_NONE, depth
\* DEPTH_ENTRY_OFFSET, BOUND_NONE, not pv) and a writer bound to the entry
\* that minimises depth8 - relative_age(current generation) across the three
\* entries, the lowest index winning ties
C31_MissReturnsLeastValuable ==
    ProbeMissed =>
        /\ ~ttProbe.found
        /\ ttProbe.data = [move |-> MOVE_NONE, value |-> VALUE_NONE, eval |-> VALUE_NONE,
                           depth |-> DEPTH_ENTRY_OFFSET, bound |-> BOUND_NONE,
                           is_pv |-> FALSE]
        /\ ttWriter[1] = (ttProbe.key * ClusterCount) \div Pow2(KeyBits)
        /\ \A i \in EntryIdx : ReplaceValue(ttWriter[2]) <= ReplaceValue(i)
        /\ \A i \in EntryIdx : i < ttWriter[2] => ReplaceValue(i) > ReplaceValue(ttWriter[2])

\* A miss on a cluster of three occupied entries: the entries 1 and 2 tie for
\* the least replace value with different depths and ages, entry 0 is worth
\* more, and the writer is bound to entry 1
C31_Witness ==
    /\ ProbeMissed
    /\ \A i \in EntryIdx : is_occupied(Unpack(ProbedCluster[i].data))
    /\ ReplaceValue(1) = ReplaceValue(2)
    /\ ReplaceValue(1) < ReplaceValue(0)
    /\ Unpack(ProbedCluster[1].data).depth8 # Unpack(ProbedCluster[2].data).depth8
    /\ ttWriter = <<0, 1>>

\* The entries of a stack below index n
EntriesBelow(st, n) == [j \in {k \in StackIdx : k < n} |-> st.acc[j]]

\* What a push step does to a stack: one entry more, the new top not computed
\* for either perspective, the entries below it as they were
PushedOn(before, after) ==
    /\ after.size = before.size + 1
    /\ \A c \in Colors : ~after.acc[after.size - 1].computed[c]
    /\ EntriesBelow(after, before.size) = EntriesBelow(before, before.size)

\* What a pop step does to a stack: one entry less, the entries left as they were
PoppedOff(before, after) ==
    /\ after.size = before.size - 1
    /\ EntriesBelow(after, after.size) = EntriesBelow(before, after.size)

\* The sizes of the stacks
StackSizesInRange ==
    /\ 1 <= psqt.size /\ psqt.size <= MaxPly + 1
    /\ threat.size = psqt.size

\* C32: for any sequence of reset, push and pop in which pop is never called
\* more often than push since the last reset and at most MAX_PLY pushes are
\* outstanding, every accumulator stack keeps 1 <= size <= MAX_PLY + 1, the
\* PSQ and threat stacks always have equal size, push makes the new top entry
\* not computed for both perspectives and leaves all lower entries unchanged,
\* and pop leaves the size and every entry below the popped one as they were
\* before the push
C32_StackDiscipline ==
    /\ []StackSizesInRange
    /\ [][/\ (\E mv \in [from : Squares, to : Squares] : AccPush(mv)) =>
                 PushedOn(psqt, psqt') /\ PushedOn(threat, threat')
          /\ AccPop => PoppedOff(psqt, psqt') /\ PoppedOff(threat, threat')]_vars

\* A push into a slot that held an evaluated entry of an earlier line: the new
\* top still holds that entry's rows but is computed for no perspective, the
\* entries below it are computed, and the stacks are full
C32_Witness ==
    /\ accLast.op = "stack"
    /\ psqt.size = MaxPly + 1
    /\ threat.size = MaxPly + 1
    /\ \A c \in Colors :
          /\ ~Latest(psqt).computed[c]
          /\ ~Latest(threat).computed[c]
          /\ Latest(psqt).accumulation[c] # Uninitialized
          /\ psqt.acc[psqt.size - 2].computed[c]

\* The rows of entry j of a stack for perspective c
RowsOf(st, j, c) ==
    [accumulation |-> st.acc[j].accumulation[c],
     psqtAccumulation |-> st.acc[j].psqtAccumulation[c]]

\* A step writes to no entry of the stack that is computed for perspective c:
\* such an entry stays computed and keeps its rows
ComputedEntriesKept(before, after, c) ==
    \A j \in StackIdx : (j < before.size /\ before.acc[j].computed[c]) =>
        /\ after.acc[j].computed[c]
        /\ RowsOf(after, j, c) = RowsOf(before, j, c)

\* C33: during evaluate, for any reachable stack contents, every incremental
\* step (single or fused, forward or backward) reads from an accumulator
\* already marked computed for that perspective and writes only to
\* accumulators not yet marked computed for it: none of the assertions in
\* update_accumulator_incremental, double_inc_update,
\* forward_update_incremental and backward_update_incremental fails, and no
\* entry that was computed before the call is written
C33_IncrementalAssertionsHold ==
    /\ [](accLast.op = "evaluate" => accLast.ok)
    /\ [][accLast'.op = "evaluate" =>
             \A c \in Colors : /\ ComputedEntriesKept(psqt, psqt', c)
                               /\ ComputedEntriesKept(threat, threat', c)]_vars

\* An evaluate on a full stack that went through a fused step in both stacks:
\* every assertion held, and the middle entry is left not computed
C33_Witness ==
    /\ accLast.op = "evaluate"
    /\ accLast.ok
    /\ accLast.fusedPsqt /\ accLast.fusedThreat
    /\ psqt.size = MaxPly + 1
    /\ \E j \in StackIdx : j < psqt.size /\ \E c \in Colors : ~psqt.acc[j].computed[c]


(***************************************************************************)
(* Coherence of the refresh cache: src/src/nnue/nnue_accumulator_new.h     *)
(* (Entry, clear) and update_accumulator_refresh_cache.                    *)
(***************************************************************************)
\* The features of a piece snapshot seen by perspective c with its king on ksq
SnapshotFeatures(c, ksq, pieces) ==
    {make_index(c, sq, pieces[sq], ksq) : sq \in Occupied(pieces)}

\* The cache entry of king square ksq and perspective c holds the rows of its own snapshot
EntryCoherent(ksq, c) ==
    LET entry == cache[ksq][c]
        feats == SnapshotFeatures(c, ksq, entry.pieces)
    IN  /\ entry.accumulation = ToI16(Bias + SumOver(feats, [i \in feats |-> Weight(i)]))
        /\ entry.psqtAccumulation = SumOver(feats, [i \in feats |-> PsqtWeight(i)])
        /\ entry.pieceBB = Occupied(entry.pieces)

\* C34: for every king square and perspective the cache entry's accumulation is the
\* biases plus the weights of the features of the entry's own piece snapshot, its
\* psqtAccumulation the sum of their PSQT weights, and its pieceBB the occupied squares
\* of the snapshot; this holds for the cleared cache and after every evaluate, whatever
\* refreshes it made
C34_CacheCoherent ==
    \A ksq \in Squares : \A c \in Colors : EntryCoherent(ksq, c)

\* After an evaluate, an entry holds the position just evaluated, another entry holds a
\* non-empty snapshot of a different position, and a third is still cleared
C34_Witness ==
    /\ accLast.op = "evaluate"
    /\ \E k1, k2, k3 \in Squares : \E c1, c2, c3 \in Colors :
        /\ cache[k1][c1].pieces = posAt[Len(posAt)]
        /\ cache[k2][c2].pieceBB # {}
        /\ cache[k2][c2].pieces # posAt[Len(posAt)]
        /\ cache[k3][c3] = ClearEntry


(***************************************************************************)
(* What evaluate leaves alone: BigNetworkAccumulator::evaluate and the     *)
(* fused step of UpdateHalfka::forward_update_incremental.                 *)
(***************************************************************************)
\* Two stacks of the same size whose entries hold the same diffs
SameSizeAndDiffs(before, after) ==
    /\ after.size = before.size
    /\ \A j \in StackIdx : after.acc[j].diff = before.acc[j].diff

\* Entries n and n + 1 of the PSQ stack are a pair the forward loop fuses
FusedPairAt(n) ==
    /\ n + 1 < psqt.size
    /\ psqt.acc[n].diff.to # SQ_NONE
    /\ psqt.acc[n].diff.to = psqt.acc[n + 1].diff.remove_sq

\* C35: evaluate changes only accumulator values and computed flags: after it returns the
\* size of each stack and every diff stored in it, the 'to' square and the removed square
\* that the fused PSQ step blanks for the duration of the update included, are what they
\* were before the call
C35_EvaluateKeepsSizeAndDiffs ==
    [][accLast'.op = "evaluate" =>
          /\ SameSizeAndDiffs(psqt, psqt')
          /\ SameSizeAndDiffs(threat, threat')]_vars

\* After an evaluate that took the fused PSQ step, the pair it fused still names the
\* capture square in both diffs
C35_Witness ==
    /\ accLast.op = "evaluate"
    /\ accLast.fusedPsqt
    /\ \E n \in StackIdx : n >= 1 /\ FusedPairAt(n) /\ psqt.acc[n + 1].computed[WHITE]


(***************************************************************************)
(* probe, write through the returned writer, probe again: keys of shards 0 *)
(* and 1, two of them sharing shard 1, and writes at the ends of the       *)
(* ranges of depth, value, eval and move.                                  *)
(***************************************************************************)
RoundKeys == {0, 1, Pow2(16) + 1}
RoundWrites ==
    {[v |-> -32768, ev |-> 32767, pv |-> TRUE, b |-> BOUND_EXACT,
      d |-> 255 + DEPTH_ENTRY_OFFSET, m |-> 65535],
     [v |-> VALUE_NONE, ev |-> -1, pv |-> FALSE, b |-> BOUND_UPPER,
      d |-> DEPTH_ENTRY_OFFSET + 1, m |-> MOVE_NONE],
     [v |-> 9, ev |-> -32768, pv |-> TRUE, b |-> BOUND_LOWER,
      d |-> DEPTH_ENTRY_OFFSET + 1, m |-> MOVE_NONE],
     [v |-> 32767, ev |-> 4, pv |-> FALSE, b |-> BOUND_NONE,
      d |-> 0, m |-> 300]}

NextRound ==
    \/ /\ \E key \in RoundKeys : Probe(key)
       /\ UNCHANGED <<histVars, netVars, parseVars, accVars, extVars>>
    \/ /\ ttProbe.op = "probe"
       /\ \E w \in RoundWrites : Write(ttProbe.key, w.v, w.pv, w.b, w.d, w.m, w.ev)
       /\ UNCHANGED <<histVars, netVars, parseVars, accVars, extVars>>
    \/ /\ NewSearch
       /\ UNCHANGED <<histVars, netVars, parseVars, accVars, extVars>>

SpecRound == InitTT /\ [][NextRound]_vars

\* The last step was a write that replaced the entry
ReplacingWrite == ttLast.op = "write" /\ ttLast.storeKey

\* The move a probe reads after the last write: the move written, or the one the entry
\* held when the write had no move and found its own key shard
MoveAfterWrite ==
    IF ttLast.args.m = MOVE_NONE /\ ttLast.args.k % 65536 = ttLast.before.key
    THEN Unpack(ttLast.before.data).move16
    ELSE ttLast.args.m

\* C36: after probe(k) and a replacing write(k, v, pv, b, d, m, ev, gen) through the
\* writer it returned, with DEPTH_ENTRY_OFFSET < d < 256 + DEPTH_ENTRY_OFFSET and v, ev
\* in the int16 range, the next probe(k) finds the entry and reads exactly v, ev, d, b,
\* pv and m, or the move the entry held when m is none and the key shard was unchanged;
\* the entry written never has depth8 = 0
C36_ProbeReadsWhatWasWritten ==
    ReplacingWrite =>
        LET a == ttLast.args
            r == ProbeResult(table, generation8, a.k)
        IN  /\ r.found
            /\ r.writer = ttWriter
            /\ r.data.value = a.v
            /\ r.data.eval = a.ev
            /\ r.data.depth = a.d
            /\ r.data.bound = a.b
            /\ r.data.is_pv = a.pv
            /\ r.data.move = MoveAfterWrite
            /\ Unpack(WriterEntry.data).depth8 # 0

\* A replacing write of the least depth and of no move, on an entry of its own key shard
\* that is not the first of its cluster and held a move, a negative value and another depth
C36_Witness ==
    /\ ReplacingWrite
    /\ ttLast.args.m = MOVE_NONE
    /\ ttLast.args.d = DEPTH_ENTRY_OFFSET + 1
    /\ ttLast.args.ev < 0
    /\ ttLast.args.k % 65536 = ttLast.before.key
    /\ Unpack(ttLast.before.data).move16 = 65535
    /\ Unpack(ttLast.before.data).value16 < 0
    /\ ttWriter[2] > 0


(***************************************************************************)
(* Two threads on one full cluster: thread 2 has stored keys 1, 2 and 3 at *)
(* its depth; thread 1 then writes key 1 at a lower depth, with or without *)
(* a move, while thread 2 writes keys 1 and 4.  Every write call stores a  *)
(* value that names its thread and its key.                                *)
(***************************************************************************)
RefreshKeys(t)  == IF t = 1 THEN {1} ELSE {1, 4}
RefreshMoves(t) == IF t = 1 THEN {MOVE_NONE, 301} ELSE {302}
RefreshValue(t, key) == 10 * t + key

\* The entry a replacing write(key, ...) of thread t leaves in an empty entry
WrittenEntry(t, key) ==
    [key  |-> ToU16(key),
     data |-> WriteOutcome(0, ZeroPacked, key, RefreshValue(t, key), FALSE, BOUND_LOWER,
                           ConcDepth(t), 302, 4, 0).data]

RefreshInit ==
    /\ table = [c \in Clusters |-> [i \in EntryIdx |->
                   IF c = 0 THEN WrittenEntry(2, i + 1) ELSE ZeroEntry]]
    /\ generation8 = 0
    /\ ttWriter = <<>>
    /\ ttProbe = [op |-> "none"]
    /\ ttLast = NoWrite
    /\ ttSearches = 0
    /\ ttThreads = [t \in Threads |-> IdleThread]
    /\ ttStored = [payloads |-> {WrittenEntry(2, i + 1).data : i \in EntryIdx},
                   keyBy  |-> [c \in Clusters |-> [i \in EntryIdx |->
                                  IF c = 0 THEN 2 ELSE 0]],
                   dataBy |-> [c \in Clusters |-> [i \in EntryIdx |->
                                  IF c = 0 THEN 2 ELSE 0]]]

InitRefresh == RefreshInit /\ HistInit /\ NetInit /\ ParseInit /\ AccInit /\ ExtInit

NextRefresh ==
    \/ /\ \E t \in Threads : \E key \in RefreshKeys(t) : ConcProbeStart(t, key)
       /\ UNCHANGED <<histVars, netVars, parseVars, accVars, extVars>>
    \/ /\ \E t \in Threads : ConcProbeLoadKey(t)
       /\ UNCHANGED <<histVars, netVars, parseVars, accVars, extVars>>
    \/ /\ \E t \in Threads : ConcProbeLoadData(t)
       /\ UNCHANGED <<histVars, netVars, parseVars, accVars, extVars>>
    \/ /\ \E t \in Threads : ConcProbeLoadCurrent(t)
       /\ UNCHANGED <<histVars, netVars, parseVars, accVars, extVars>>
    \/ /\ \E t \in Threads : ConcProbeLoadCandidate(t)
       /\ UNCHANGED <<histVars, netVars, parseVars, accVars, extVars>>
    \/ /\ \E t \in Threads : ConcWriteLoadKey(t)
       /\ UNCHANGED <<histVars, netVars, parseVars, accVars, extVars>>
    \/ /\ \E t \in Threads : \E m \in RefreshMoves(t) :
              ConcWriteLoadDataOf(t, RefreshValue(t, ttThreads[t].key), ConcDepth(t), m)
       /\ UNCHANGED <<histVars, netVars, parseVars, accVars, extVars>>
    \/ /\ \E t \in Threads : ConcWriteStoreKey(t)
       /\ UNCHANGED <<histVars, netVars, parseVars, accVars, extVars>>
    \/ /\ \E t \in Threads : ConcWriteStoreData(t)
       /\ UNCHANGED <<histVars, netVars, parseVars, accVars, extVars>>
    \/ /\ \E t \in Threads : ConcWriteReturn(t)
       /\ UNCHANGED <<histVars, netVars, parseVars, accVars, extVars>>

SpecRefresh == InitRefresh /\ [][NextRefresh]_vars

\* No thread is inside TTWriter::write
NoWriteRunning == \A t \in Threads : ttThreads[t].pc \notin {"write_data", "write_store"}

\* The depth, generation/pv/bound byte, value and eval of a payload are those the
\* replacing write(key, ...) of thread t stores
FieldsOfWrite(data, t, key) ==
    /\ data.value16 = RefreshValue(t, key)
    /\ data.depth8 = ConcDepth(t) - DEPTH_ENTRY_OFFSET
    /\ data.genBound8 = generation8 + BOUND_LOWER
    /\ data.eval16 = 4

\* C37 as stated: once all concurrent write calls on an entry have returned, its key shard
\* and its depth, generation, value and eval were stored by the same write call; a
\* move-only refresh never leaves its earlier-loaded payload under the key shard of a
\* replacement stored in between
C37_KeyAndFieldsFromSameWrite ==
    NoWriteRunning =>
        \A c \in Clusters, i \in EntryIdx :
            table[c][i].key # 0 =>
                \E t \in Threads :
                    FieldsOfWrite(Unpack(table[c][i].data), t, table[c][i].key)

\* C37 amended: once all concurrent write calls on an entry have returned, its key shard is
\* the one a single write call stored, and its depth, generation, value and eval are
\* together those of a single replacing write call, with a move that some write call
\* passed; the two calls need not be the same, because a move-only refresh stores the
\* payload it loaded with only the move changed and does not store the key
C37_KeyAndFieldsEachFromOneWrite ==
    NoWriteRunning =>
        \A c \in Clusters, i \in EntryIdx :
            table[c][i].key # 0 =>
                LET data == Unpack(table[c][i].data)
                IN  /\ table[c][i].key \in {ToU16(key) : key \in 1 .. 4}
                    /\ \E t \in Threads, key \in 1 .. 4 : FieldsOfWrite(data, t, key)
                    /\ data.move16 \in UNION {RefreshMoves(t) : t \in Threads}

\* With no write running, an entry holds the key shard thread 2 stored for key 4 over the
\* depth, value and eval thread 2 had stored for key 1 and the move of thread 1's refresh
C37_Witness ==
    /\ NoWriteRunning
    /\ \E i \in EntryIdx :
        /\ table[0][i].key = 4
        /\ ttStored.keyBy[0][i] = 2
        /\ ttStored.dataBy[0][i] = 1
        /\ FieldsOfWrite(Unpack(table[0][i].data), 2, 1)
        /\ Unpack(table[0][i].data).move16 = 301


(***************************************************************************)
(* Specification of TranspositionTable::clear run by the worker threads:   *)
(* tables of 1 to MaxClearClusters clusters cleared by 1 to                *)
(* MaxClearThreads workers, the workers interleaved in every order.        *)
(***************************************************************************)
InitClearPart == InitCore /\ ExtInit

NextClearPart ==
    \/ /\ \E count \in ClearCounts, threadCount \in 1 .. MaxClearThreads :
              ClearPartStart(count, threadCount)
       /\ UNCHANGED <<coreVars, saveVars, stateVars, fenVars, optVars, drawVars, ageVars, bonusVars, contVars, cuckooVars, trVars, memVars, engVars, regVars>>
    \/ /\ ClearPartRun
       /\ UNCHANGED <<coreVars, saveVars, stateVars, fenVars, optVars, drawVars, ageVars, bonusVars, contVars, cuckooVars, trVars, memVars, engVars, regVars>>
    \/ /\ \E t \in ClearWorkers : ClearPartZero(t)
       /\ UNCHANGED <<coreVars, saveVars, stateVars, fenVars, optVars, drawVars, ageVars, bonusVars, contVars, cuckooVars, trVars, memVars, engVars, regVars>>
    \/ /\ ClearPartWait
       /\ UNCHANGED <<coreVars, saveVars, stateVars, fenVars, optVars, drawVars, ageVars, bonusVars, contVars, cuckooVars, trVars, memVars, engVars, regVars>>

SpecClearPart == InitClearPart /\ [][NextClearPart]_vars

\* Cluster j lies in the slice of worker t: from (clusterCount / n) * t, for clusterCount / n
\* clusters, and to the end of the table for the last worker
InSliceOf(t, j) ==
    LET stride == cpClear.count \div cpClear.threadCount
    IN  /\ stride * t <= j
        /\ IF t + 1 # cpClear.threadCount THEN j < stride * (t + 1) ELSE j < cpClear.count

\* The clusters worker t has zeroed so far
ZeroedBy(t) == {j \in ClearIdx : \E n \in 1 .. Len(cpZeroed[j]) : cpZeroed[j][n] = t}

\* C38: clear partitions the table among the workers: for every thread count n >= 1 and
\* every cluster count, worker i zeroes the contiguous slice that starts at
\* (clusterCount / n) * i, the last worker takes the remainder as well, no cluster is
\* zeroed by two workers, and when clear returns every worker has finished and every
\* cluster of the table has been zeroed by exactly one worker
C38_ClearPartitions ==
    /\ \A j \in ClearIdx : Len(cpZeroed[j]) <= 1
    /\ \A t \in ClearWorkers :
          /\ \A j \in ZeroedBy(t) : InSliceOf(t, j)
          /\ cpJobs[t].pc # "none" =>
                 ZeroedBy(t) = {j \in ClearIdx :
                                   /\ (cpClear.count \div cpClear.threadCount) * t <= j
                                   /\ j < cpJobs[t].j}
    /\ cpClear.pc = "returned" =>
          /\ cpClear.generation8 = 0
          /\ \A t \in ClearWorkers : t < cpClear.threadCount => cpJobs[t].pc = "done"
          /\ \A j \in ClearIdx : j < cpClear.count =>
                 /\ Len(cpZeroed[j]) = 1
                 /\ cpTable[j] = "zero"

\* clear has returned from a table whose size is not a multiple of the number of
\* workers: the last of them zeroed the remainder
C38_Witness ==
    /\ cpClear.pc = "returned"
    /\ cpClear.threadCount = MaxClearThreads
    /\ cpClear.count > cpClear.threadCount
    /\ cpClear.count % cpClear.threadCount # 0
    /\ Cardinality(ZeroedBy(cpClear.threadCount - 1))
           > cpClear.count \div cpClear.threadCount
    /\ ZeroedBy(0) = {0}


(***************************************************************************)
(* Specification of the Engine's calls against the searching workers.      *)
(***************************************************************************)
InitEngine == InitCore /\ ExtInit

NextEngine ==
    \/ /\ EngineGo
       /\ UNCHANGED <<coreVars, saveVars, stateVars, fenVars, optVars, drawVars, ageVars, bonusVars, contVars, cuckooVars, trVars, memVars, clearVars, regVars>>
    \/ /\ EngineStop
       /\ UNCHANGED <<coreVars, saveVars, stateVars, fenVars, optVars, drawVars, ageVars, bonusVars, contVars, cuckooVars, trVars, memVars, clearVars, regVars>>
    \/ /\ MainStartsHelpers
       /\ UNCHANGED <<coreVars, saveVars, stateVars, fenVars, optVars, drawVars, ageVars, bonusVars, contVars, cuckooVars, trVars, memVars, clearVars, regVars>>
    \/ /\ \E w \in Workers : WorkerAccess(w)
       /\ UNCHANGED <<coreVars, saveVars, stateVars, fenVars, optVars, drawVars, ageVars, bonusVars, contVars, cuckooVars, trVars, memVars, clearVars, regVars>>
    \/ /\ \E w \in Helpers : HelperFinishes(w)
       /\ UNCHANGED <<coreVars, saveVars, stateVars, fenVars, optVars, drawVars, ageVars, bonusVars, contVars, cuckooVars, trVars, memVars, clearVars, regVars>>
    \/ /\ MainJoins
       /\ UNCHANGED <<coreVars, saveVars, stateVars, fenVars, optVars, drawVars, ageVars, bonusVars, contVars, cuckooVars, trVars, memVars, clearVars, regVars>>
    \/ /\ MainFinishes
       /\ UNCHANGED <<coreVars, saveVars, stateVars, fenVars, optVars, drawVars, ageVars, bonusVars, contVars, cuckooVars, trVars, memVars, clearVars, regVars>>
    \/ /\ \E op \in {"search_clear", "set_tt_size"} : EngineCall(op)
       /\ UNCHANGED <<coreVars, saveVars, stateVars, fenVars, optVars, drawVars, ageVars, bonusVars, contVars, cuckooVars, trVars, memVars, clearVars, regVars>>
    \/ /\ EngineWaitReturns
       /\ UNCHANGED <<coreVars, saveVars, stateVars, fenVars, optVars, drawVars, ageVars, bonusVars, contVars, cuckooVars, trVars, memVars, clearVars, regVars>>
    \/ /\ EngineTTStep
       /\ UNCHANGED <<coreVars, saveVars, stateVars, fenVars, optVars, drawVars, ageVars, bonusVars, contVars, cuckooVars, trVars, memVars, clearVars, regVars>>

SpecEngine == InitEngine /\ [][NextEngine]_vars

\* No worker is searching
NoSearchRunning == \A w \in Workers : engWorkers[w] = "idle"

\* C39: the table is never cleared or reallocated while a search is running:
\* search_clear and set_tt_size first block in wait_for_search_finished and only then call
\* tt.clear or tt.resize, so that while the storage is being zeroed or is freed no worker
\* is searching, and no worker ever probes or writes storage in that state
C39_NoClearDuringSearch ==
    /\ [](engTT # "ready" => NoSearchRunning)
    /\ [](engLast.op = "access" => engLast.tt = "ready")
    /\ [][(engTT = "ready" /\ engTT' # "ready") =>
             /\ engPc.at = "wait"
             /\ NoSearchRunning]_vars

\* set_tt_size has waited and has freed the storage that a helper of a search, now
\* finished, had probed or written
C39_Witness ==
    /\ engTT = "freed"
    /\ engPc.op = "set_tt_size"
    /\ engLast.op = "access" /\ engLast.by # 0
    /\ engStop


(***************************************************************************)
(* Specification of the registration, combo assignment and printing of     *)
(* options over MaxInstances OptionsMap instances.                         *)
(***************************************************************************)
InitReg == InitCore /\ ExtInit

NextReg ==
    \/ /\ \E inst \in RegInstances, name \in RegNames : RegisterOption(inst, name)
       /\ UNCHANGED <<coreVars, saveVars, stateVars, fenVars, optVars, drawVars, ageVars, bonusVars, contVars, cuckooVars, trVars, memVars, clearVars, engVars>>
    \/ /\ \E inst \in RegInstances : AssignCombo(inst)
       /\ UNCHANGED <<coreVars, saveVars, stateVars, fenVars, optVars, drawVars, ageVars, bonusVars, contVars, cuckooVars, trVars, memVars, clearVars, engVars>>
    \/ /\ \E inst \in RegInstances : PrintOptions(inst)
       /\ UNCHANGED <<coreVars, saveVars, stateVars, fenVars, optVars, drawVars, ageVars, bonusVars, contVars, cuckooVars, trVars, memVars, clearVars, engVars>>

SpecReg == InitReg /\ [][NextReg]_vars

\* C40: printing an OptionsMap lists every registered option exactly once and in the
\* order of registration: in every OptionsMap the idx values are exactly 0 .. n - 1 in
\* insertion order, after any registrations and assignments, combo assignments included,
\* and for any number of instances
C40_PrintListsAllInOrder ==
    /\ \A inst \in RegInstances :
          \A k \in 1 .. Len(regOrder[inst]) : regMaps[inst][regOrder[inst][k]] = k - 1
    /\ regLast.op = "print" => regLast.out = regOrder[regLast.inst]

====
